---------------------------- MODULE Spec2Model ----------------------------
(***************************************************************************)
(* Model of the hexapod controllers of kevintmckay/hexapod:                *)
(*   big_hex  - 18 LX-16A serial bus servos (lx16a.py, hexapod.py, gait.py)*)
(*   hex      - 18 PWM servos behind two PCA9685 (hexapod.py, gait.py)     *)
(*                                                                         *)
(* Three specifications share the variables:                               *)
(*   SpecCodec - the LX16A frame codec (_build_packet, _send, _receive)    *)
(*   SpecLeg   - the leg controller (move_leg, move_all_legs)              *)
(*   Spec      - the gait engine (walk, rotate, wave_walk) of a variant    *)
(***************************************************************************)
EXTENDS Integers, Sequences, FiniteSets, TLC

(***************************************************************************)
(* Bounds of the model.                                                    *)
(***************************************************************************)
\* longest parameter list handed to _build_packet
MaxParams == 2
\* most garbage bytes that line noise puts in front of a frame
MaxGarbage == 2

(***************************************************************************)
(* lx16a.py: protocol constants.                                           *)
(***************************************************************************)
CMD_MOVE_TIME_WRITE == 1
CMD_MOVE_TIME_WAIT_WRITE == 7
CMD_MOVE_START == 11
CMD_POS_READ == 28
FRAME_HEADER == 85
BROADCAST_ID == 254

\* Python's None; a packet is never the empty byte string
None == << >>

\* inputs of the codec: target ids, command codes, parameter bytes
ServoIdInputs == {0, 1, BROADCAST_ID}
CmdInputs == {CMD_MOVE_TIME_WRITE, CMD_POS_READ}
ByteInputs == {1, FRAME_HEADER}
\* the values a byte hit by line noise can turn into
NoiseBytes == {0, 1, FRAME_HEADER, 255}

RECURSIVE SeqsUpTo(_, _)
SeqsUpTo(S, n) ==
    IF n = 0 THEN { << >> }
    ELSE LET shorter == SeqsUpTo(S, n - 1)
         IN  shorter \cup { Append(s, b) : s \in { t \in shorter : Len(t) = n - 1 }, b \in S }

ParamInputs == SeqsUpTo(ByteInputs, MaxParams)

(***************************************************************************)
(* Python helpers on byte strings (0-based, end-exclusive slices that      *)
(* clamp to the string, as bytes.__getitem__ does).                        *)
(***************************************************************************)
Min(a, b) == IF a < b THEN a ELSE b
Max(a, b) == IF a > b THEN a ELSE b

Last(s) == s[Len(s)]

\* data[a:b] for 0 <= a
Slice(data, a, b) == SubSeq(data, a + 1, Min(b, Len(data)))

\* sum(...) of a byte string, halving the string so that long ones stay shallow
RECURSIVE Sum(_)
Sum(s) ==
    IF s = << >> THEN 0
    ELSE IF Len(s) = 1 THEN s[1]
    ELSE LET h == Len(s) \div 2
         IN  Sum(SubSeq(s, 1, h)) + Sum(SubSeq(s, h + 1, Len(s)))

\* (~total) & 0xFF
NotMasked(total) == 255 - (total % 256)

(***************************************************************************)
(* LX16A._checksum: length = data[3]; (~sum(data[2:length + 2])) & 0xFF.   *)
(***************************************************************************)
ChecksumFromLength(data) ==
    LET length == data[4]
    IN  NotMasked(Sum(Slice(data, 3, length + 2)))

LX16A_checksum(data) ==
    LET length == data[4]
    IN  NotMasked(Sum(Slice(data, 2, length + 2)))

(***************************************************************************)
(* LX16A._build_packet: [0x55, 0x55, ID, LENGTH, CMD, PARAMS..., CHECKSUM] *)
(* with LENGTH = len(params) + 3.                                          *)
(***************************************************************************)
\* the variant that counts cmd, params and checksum only
PacketLengthNoSelf(params) == Len(params) + 2

PacketLength(params) == Len(params) + 3

LX16A_build_packet(servo_id, cmd, params) ==
    LET length == PacketLength(params)
        packet == << FRAME_HEADER, FRAME_HEADER, servo_id, length, cmd >> \o params
        checksum == LX16A_checksum(packet \o << 0 >>)
    IN  packet \o << checksum >>

(***************************************************************************)
(* LX16A._receive on the bytes that are in the input buffer before the     *)
(* deadline.  The result names the packet returned (None on failure), the  *)
(* bytes left in the buffer, how the call ended, and how many bytes        *)
(* serial.read(remaining) was asked for.                                   *)
(***************************************************************************)
\* the header loop: index of the byte that completes two consecutive
\* FRAME_HEADER bytes, 0 when the buffer runs out first
RECURSIVE ScanHeader(_, _, _)
ScanHeader(buf, i, header_count) ==
    IF i > Len(buf) THEN 0
    ELSE IF buf[i] = FRAME_HEADER
         THEN IF header_count + 1 = 2 THEN i
              ELSE ScanHeader(buf, i + 1, header_count + 1)
         ELSE ScanHeader(buf, i + 1, 0)

\* remaining = length
Remaining(length) == length

LX16A_receive(buf) ==
    LET h == ScanHeader(buf, 1, 0)
    IN  IF h = 0
        THEN [packet |-> None, rest |-> << >>, status |-> "no_header", asked |-> 0]
        ELSE IF Len(buf) - h < 2
        THEN [packet |-> None, rest |-> << >>, status |-> "short_header", asked |-> 0]
        ELSE LET servo_id == buf[h + 1]
                 length == buf[h + 2]
                 remaining == Remaining(length)
                 avail == Len(buf) - (h + 2)
             IN  IF avail < remaining
                 THEN [packet |-> None, rest |-> << >>, status |-> "short_data",
                       asked |-> remaining]
                 ELSE LET data == SubSeq(buf, h + 3, h + 2 + remaining)
                          packet == << FRAME_HEADER, FRAME_HEADER, servo_id, length >> \o data
                          received_checksum == packet[Len(packet)]
                          calculated_checksum ==
                              LX16A_checksum(SubSeq(packet, 1, Len(packet) - 1) \o << 0 >>)
                          rest == SubSeq(buf, h + 3 + remaining, Len(buf))
                      IN  IF received_checksum # calculated_checksum
                          THEN [packet |-> None, rest |-> rest, status |-> "checksum",
                                asked |-> remaining]
                          ELSE [packet |-> packet, rest |-> rest, status |-> "ok",
                                asked |-> remaining]

(***************************************************************************)
(* State of the serial driver.                                             *)
(***************************************************************************)
VARIABLES
    simulation,   \* LX16A.simulation; for hex, Hexapod.simulate
    serial_out,   \* the packet _send wrote last
    sent,         \* the arguments of the _build_packet call behind serial_out
    serial_in,    \* the serial port's input buffer
    rx_kind,      \* what serial_in holds: "empty", "frame", "corrupt", "mixed"
    response,     \* what the last _receive returned
    call          \* the last _receive call: its input, outcome and history

codecVars == << simulation, serial_out, sent, serial_in, rx_kind, response, call >>

\* the state of the robot: the leg controller and the gait engine
VARIABLES
    variant,        \* which program runs: "big_hex" or "hex"
    leg_positions,  \* Hexapod.leg_positions: leg -> << x, y, z >>
    body_height,    \* big_hex Hexapod.body_height
    stand_height,   \* GaitController.stand_height
    bus,            \* big_hex: the frames handed to LX16A._send in the current phase
    pwm,            \* hex: the (pca_index, channel) writes of set_pwm in the current phase
    pc,             \* where the running gait call stands, "idle" when none runs
    g,              \* the arguments and locals of the running gait call
    phase,          \* the phase dispatched last: its name, legs and sleep
    start_pos,      \* leg_positions when the current half-cycle began
    cycle,          \* the half-cycles of this cycle: (swing, stance) leg sets, positions at start
    calls           \* top-level calls made so far

robotVars == << variant, leg_positions, body_height, stand_height, bus, pwm, pc, g,
                phase, start_pos, cycle, calls >>

\* the calls of the conversion functions, which keep no state of their own
VARIABLES
    calc            \* the last call: the function, its arguments and its outcome

\* the hex calibration tool and the record of the joint it works on
VARIABLES
    config,         \* CalibrationTool.calibration[leg][joint] of that joint
    current,        \* the local `current` of calibrate_joint
    tool_pc,        \* "menu", "joint" in calibrate_joint, "sleep", "exit", "raised"
    commands,       \* commands typed so far
    file,           \* calibration.json: the record of that joint, or NoFile
    servo_range,    \* Hexapod.servo_range[leg][joint] of that joint
    pulse           \* the tool's last write to that joint's channel

calVars == << config, current, tool_pc, commands, file, servo_range, pulse >>

\* the move_leg / move_all_legs call that is running, statement by statement
VARIABLES
    mv              \* the call, its arguments and the statement it is at

\* a request to stop the running gait, made from outside the controller
VARIABLES
    cancel          \* whether one was made, and the positions and phase then

toolVars == << calc, calVars, mv, cancel >>

vars == << codecVars, robotVars, toolVars >>

NoCalc == [op |-> "none", in |-> << >>, out |-> [raised |-> "none", value |-> << >>]]

CalcInit == calc = NoCalc

NoCancel == [requested |-> FALSE, positions |-> << >>, phase |-> << >>]

NoMove == [op |-> "none", order |-> << >>, target |-> << >>, idx |-> 1, joint |-> 1,
           at |-> "idle"]

NoCall == [op |-> "none", input |-> << >>, kind |-> "empty", status |-> "none",
           asked |-> 0, header_end |-> 0, after_failure |-> FALSE]

\* the return value and the locals of a finished _receive call are gone once
\* the driver does something else; what stays is whether a decode has failed
Failed(c) == c.status \in {"no_header", "short_header", "short_data", "checksum"}

Forget(op) == [NoCall EXCEPT !.op = op,
                             !.after_failure = (call.after_failure \/ Failed(call))]

CodecInit ==
    /\ simulation \in BOOLEAN
    /\ serial_out = << >>
    /\ sent = [servo_id |-> 0, cmd |-> 0, params |-> << >>]
    /\ serial_in = << >>
    /\ rx_kind = "empty"
    /\ response = None
    /\ call = NoCall

\* _build_packet, then _send: reset_input_buffer(), write(packet), flush();
\* in simulation the packet is only printed
Send(servo_id, cmd, params) ==
    /\ serial_out' = LX16A_build_packet(servo_id, cmd, params)
    /\ sent' = [servo_id |-> servo_id, cmd |-> cmd, params |-> params]
    /\ serial_in' = << >>
    /\ rx_kind' = "empty"
    /\ response' = None
    /\ call' = Forget("send")
    /\ UNCHANGED simulation
    /\ UNCHANGED << robotVars, toolVars >>

\* the single-wire bus hands the written frame to the receiver unchanged
Echo ==
    /\ ~simulation
    /\ serial_out # << >>
    /\ Len(serial_in) <= MaxGarbage
    /\ rx_kind \in {"empty", "mixed"}
    /\ serial_in' = serial_in \o serial_out
    /\ rx_kind' = IF serial_in = << >> THEN "frame" ELSE "mixed"
    /\ response' = None
    /\ call' = Forget("arrive")
    /\ UNCHANGED << simulation, serial_out, sent >>
    /\ UNCHANGED << robotVars, toolVars >>

\* the frame arrives with byte i turned into v by line noise
EchoCorrupt(i, v) ==
    /\ ~simulation
    /\ serial_out # << >>
    /\ serial_in = << >>
    /\ i \in 1..Len(serial_out)
    /\ v # serial_out[i]
    /\ serial_in' = [serial_out EXCEPT ![i] = v]
    /\ rx_kind' = "corrupt"
    /\ response' = None
    /\ call' = Forget("arrive")
    /\ UNCHANGED << simulation, serial_out, sent >>
    /\ UNCHANGED << robotVars, toolVars >>

\* a stray byte arrives
Garbage(b) ==
    /\ ~simulation
    /\ Len(serial_in) < MaxGarbage
    /\ rx_kind \in {"empty", "mixed"}
    /\ serial_in' = Append(serial_in, b)
    /\ rx_kind' = "mixed"
    /\ response' = None
    /\ call' = Forget("arrive")
    /\ UNCHANGED << simulation, serial_out, sent >>
    /\ UNCHANGED << robotVars, toolVars >>

\* _receive(expected_length): expected_length is not read by the code
Receive ==
    /\ call.op # "receive"
    /\ IF simulation
       THEN /\ response' = None
            /\ call' = [op |-> "receive", input |-> << >>, kind |-> "empty",
                        status |-> "simulation", asked |-> 0, header_end |-> 0,
                        after_failure |-> call.after_failure]
            /\ UNCHANGED << serial_in, rx_kind >>
       ELSE LET r == LX16A_receive(serial_in)
            IN  /\ response' = r.packet
                /\ serial_in' = r.rest
                /\ rx_kind' = IF r.rest = << >> THEN "empty" ELSE "mixed"
                /\ call' = [op |-> "receive", input |-> serial_in, kind |-> rx_kind,
                            status |-> r.status, asked |-> r.asked,
                            header_end |-> ScanHeader(serial_in, 1, 0),
                            after_failure |-> call.after_failure]
    /\ UNCHANGED << simulation, serial_out, sent >>
    /\ UNCHANGED << robotVars, toolVars >>

CodecNext ==
    \/ \E servo_id \in ServoIdInputs, cmd \in CmdInputs, params \in ParamInputs :
           Send(servo_id, cmd, params)
    \/ Echo
    \/ \E i \in 1..(MaxParams + 6), v \in NoiseBytes : EchoCorrupt(i, v)
    \/ \E b \in {0, FRAME_HEADER} : Garbage(b)
    \/ Receive


(***************************************************************************)
(* The robot: six legs of three joints.                                    *)
(***************************************************************************)
Legs == {"L1", "L2", "L3", "R1", "R2", "R3"}
Joints == << "coxa", "femur", "tibia" >>

\* big_hex hexapod.py: DEFAULT_SERVO_IDS
DEFAULT_SERVO_IDS ==
    [leg \in Legs |->
        LET base == CASE leg = "L1" -> 0 [] leg = "L2" -> 3 [] leg = "L3" -> 6
                      [] leg = "R1" -> 9 [] leg = "R2" -> 12 [] leg = "R3" -> 15
        IN  [joint \in {"coxa", "femur", "tibia"} |->
                CASE joint = "coxa" -> base + 1
                  [] joint = "femur" -> base + 2
                  [] joint = "tibia" -> base + 3]]

\* hex hexapod.py: DEFAULT_SERVO_MAP, (pca_index, channel)
DEFAULT_SERVO_MAP ==
    [leg \in Legs |->
        LET first == CASE leg = "L1" -> << 0, 0 >> [] leg = "L2" -> << 0, 3 >>
                       [] leg = "L3" -> << 0, 6 >> [] leg = "R1" -> << 0, 9 >>
                       [] leg = "R2" -> << 1, 0 >> [] leg = "R3" -> << 1, 3 >>
        IN  [joint \in {"coxa", "femur", "tibia"} |->
                CASE joint = "coxa" -> first
                  [] joint = "femur" -> << first[1], first[2] + 1 >>
                  [] joint = "tibia" -> << first[1], first[2] + 2 >>]]

\* hex calibrate.py: the 'channel' fields of DEFAULT_CALIBRATION
DEFAULT_CALIBRATION_CHANNEL ==
    [leg \in Legs |->
        LET first == CASE leg = "L1" -> 0 [] leg = "L2" -> 3 [] leg = "L3" -> 6
                       [] leg = "R1" -> 9 [] leg = "R2" -> 16 [] leg = "R3" -> 19
        IN  [joint \in {"coxa", "femur", "tibia"} |->
                CASE joint = "coxa" -> first
                  [] joint = "femur" -> first + 1
                  [] joint = "tibia" -> first + 2]]

\* channels of one PCA9685 board
PCA_CHANNELS == 16

\* every channel taken as one of the first board
ChannelOnFirstBoard(channel) == << 0, channel >>

\* _build_servo_map: pca_idx = 0 if channel < 16 else 1, and
\* ch = channel if channel < 16 else channel - 16
ChannelToBoard(channel) ==
    IF channel < PCA_CHANNELS THEN << 0, channel >> ELSE << 1, channel - PCA_CHANNELS >>

\* servo_map[leg][joint] as _build_servo_map fills it: from the calibration
\* when there is one, from DEFAULT_SERVO_MAP otherwise
ServoMapEntry(calibrated, leg, joint) ==
    IF calibrated THEN ChannelToBoard(DEFAULT_CALIBRATION_CHANNEL[leg][joint])
    ELSE DEFAULT_SERVO_MAP[leg][joint]

\* key order of the leg tables: big_hex LEG_ANGLES (GaitController.all_legs),
\* hex Hexapod.servo_map (leg_positions.keys())
BIG_LEG_ORDER == << "L1", "R1", "L2", "R2", "L3", "R3" >>
HEX_LEG_ORDER == << "L1", "L2", "L3", "R1", "R2", "R3" >>

\* GaitController.__init__ (the same in both variants)
\* (tripod2_typo: a second tripod that shares L3 with the first)
tripod1 == << "L1", "R2", "L3" >>
tripod2_typo == << "R1", "L2", "L3" >>
tripod2 == << "R1", "L2", "R3" >>

\* big_hex GaitController.wave_sequence; the sequence of hex wave_walk
wave_sequence == << "L1", "R1", "L2", "R2", "L3", "R3" >>
hex_wave_sequence_typo == << "R3", "R2", "R1", "L3", "L2", "L2" >>
hex_wave_sequence == << "R3", "R2", "R1", "L3", "L2", "L1" >>

\* RippleGait.sequence
ripple_sequence == << "R1", "R2", "R3", "L3", "L2", "L1" >>

\* defaults, in mm
BIG_BODY_HEIGHT == 80
BIG_STANCE_X == 100
BIG_STAND_HEIGHT == 80
BIG_STEP_HEIGHT == 40
BIG_STEP_LENGTH == 60
BIG_SIT_HEIGHT == 30
HEX_STANCE_X == 80
HEX_STAND_Z == 50
HEX_STAND_HEIGHT == 50
HEX_SIT_HEIGHT == 20

\* bounds of the gait model: cycles per gait call, top-level calls per run
MaxSteps == 2
MaxCalls == 2

\* inputs of the gait calls; a keyword left at None is the input 0, which
\* Python's `arg or default` treats exactly as None
DirectionInputs == {0, 90, 180, 270}
WaveDirectionInputs == {0, 270}
StepLengthInputs == {0, 30}
StepHeightInputs == {0, 20}
HeightInputs == {0, 60}

\* math.cos / math.sin of math.radians(d) for the axis-aligned directions
\* (the float error of cos(pi/2) is left out)
Cos(d) == CASE d % 360 = 0 -> 1 [] d % 360 = 90 -> 0 [] d % 360 = 180 -> -1
            [] d % 360 = 270 -> 0
Sin(d) == CASE d % 360 = 0 -> 0 [] d % 360 = 90 -> 1 [] d % 360 = 180 -> 0
            [] d % 360 = 270 -> -1

\* int(x) of the quotient num / den, den > 0: truncation toward zero
IntTrunc(num, den) == IF num >= 0 THEN num \div den ELSE -((-num) \div den)

\* Python's `a or b` on numbers
Or(a, b) == IF a = 0 THEN b ELSE a

SetOf(seq) == { seq[i] : i \in 1..Len(seq) }

NoLocals == [gait |-> "none", dx |-> 0, dy |-> 0, lift |-> 0, steps |-> 0, step |-> 0,
             half |-> 1, idx |-> 1, x |-> 0, y |-> 0, z |-> 0, halves |-> 0,
             stepped |-> << >>]

NoPhase == [name |-> "none", gait |-> "none", legs |-> {}, slept |-> TRUE]

RobotInit ==
    /\ variant \in {"big_hex", "hex"}
    /\ leg_positions =
           [leg \in Legs |-> IF variant = "big_hex"
                             THEN << BIG_STANCE_X, 0, -BIG_BODY_HEIGHT >>
                             ELSE << HEX_STANCE_X, 0, -HEX_STAND_Z >>]
    /\ body_height = IF variant = "big_hex" THEN BIG_BODY_HEIGHT ELSE 0
    /\ stand_height = IF variant = "big_hex" THEN BIG_STAND_HEIGHT ELSE HEX_STAND_HEIGHT
    /\ bus = << >>
    /\ pwm = << >>
    /\ pc = "idle"
    /\ g = NoLocals
    /\ phase = NoPhase
    /\ start_pos = leg_positions
    /\ cycle = << >>
    /\ calls = 0

(***************************************************************************)
(* leg_ik: the reach test.  With r = sqrt(x^2 + y^2) and c = coxa_len the  *)
(* code takes xy_dist = r - c (1 when that is negative) and foot_dist =    *)
(* sqrt(xy_dist^2 + z^2), and clamps foot_dist when it is above max_reach  *)
(* or below min_reach.  The comparisons are made here on squares, which is *)
(* exact on integer coordinates; the angles themselves are left out.       *)
(***************************************************************************)
BIG_COXA_LENGTH == 50
BIG_FEMUR_LENGTH == 80
BIG_TIBIA_LENGTH == 120
HEX_COXA_LENGTH == 25
HEX_FEMUR_LENGTH == 55
HEX_TIBIA_LENGTH == 75

Abs(n) == IF n < 0 THEN -n ELSE n

\* the largest s in lo..hi with s * s <= n
RECURSIVE IsqrtIn(_, _, _)
IsqrtIn(n, lo, hi) ==
    IF lo = hi THEN lo
    ELSE LET mid == (lo + hi + 1) \div 2
         IN  IF mid * mid <= n THEN IsqrtIn(n, mid, hi) ELSE IsqrtIn(n, lo, mid - 1)

\* the integer square root; 46340 is the largest root of a 32-bit integer
Isqrt(n) == IsqrtIn(n, 0, 46340)

\* foot_dist > reach, for a reach >= 0:
\* (r - c)^2 + z^2 > reach^2  iff  r2 + c^2 + z^2 - reach^2 > 2 c r
FootDistAbove(x, y, z, c, reach) ==
    LET r2 == x * x + y * y
    IN  IF r2 < c * c
        THEN 1 + z * z > reach * reach
        ELSE r2 + c * c + z * z - reach * reach > Isqrt(4 * c * c * r2)

\* foot_dist < reach, for a reach >= 0
FootDistBelow(x, y, z, c, reach) ==
    LET r2 == x * x + y * y
        m == 4 * c * c * r2
        s == Isqrt(m)
        b == r2 + c * c + z * z - reach * reach
    IN  IF r2 < c * c
        THEN 1 + z * z < reach * reach
        ELSE IF s * s = m THEN b < s ELSE b <= s

\* if foot_dist > max_reach or foot_dist < min_reach: ... clamp
ReachClamped(x, y, z, coxa_len, femur_len, tibia_len) ==
    \/ FootDistAbove(x, y, z, coxa_len, femur_len + tibia_len)
    \/ FootDistBelow(x, y, z, coxa_len, Abs(femur_len - tibia_len))

\* big_hex leg_ik: one return statement, the three angles; nothing is
\* printed and nothing else tells the caller of the clamp
big_leg_ik(x, y, z) ==
    [is_None |-> FALSE,
     clamped |-> ReachClamped(x, y, z, BIG_COXA_LENGTH, BIG_FEMUR_LENGTH, BIG_TIBIA_LENGTH),
     warned |-> FALSE]

\* hex leg_ik: clamped = True in the clamp branch, and the warning is
\* printed if clamped
hex_leg_ik(x, y, z) ==
    LET c == ReachClamped(x, y, z, HEX_COXA_LENGTH, HEX_FEMUR_LENGTH, HEX_TIBIA_LENGTH)
    IN  [is_None |-> FALSE, clamped |-> c, warned |-> c]

(***************************************************************************)
(* Leg controller.                                                         *)
(***************************************************************************)
BigLegIkNoneWhenClamped(x, y, z) == big_leg_ik(x, y, z).clamped

\* big_hex leg_ik has a single return statement, which returns the three
\* servo angles: it never returns None
big_leg_ik_is_None(x, y, z) == big_leg_ik(x, y, z).is_None

Frame(cmd, id) == [cmd |-> cmd, id |-> id]

\* LX16A.move / move_prepare / move_start: one frame each
BusMove(servo_id) == Frame(CMD_MOVE_TIME_WRITE, servo_id)
BusMovePrepare(servo_id) == Frame(CMD_MOVE_TIME_WAIT_WRITE, servo_id)
BusMoveStart == Frame(CMD_MOVE_START, BROADCAST_ID)

\* big_hex Hexapod.set_leg_angles: set_servo for coxa, femur, tibia
BigSetLegAngles(leg) ==
    [i \in 1..3 |-> BusMove(DEFAULT_SERVO_IDS[leg][Joints[i]])]

\* the inner loop of move_all_legs: move_prepare for coxa, femur, tibia
PrepareLeg(leg) ==
    [i \in 1..3 |-> BusMovePrepare(DEFAULT_SERVO_IDS[leg][Joints[i]])]

\* hex Hexapod.move_leg: set_servo for coxa, femur, tibia; set_pwm is not
\* reached when the controller simulates
HexSetServos(leg) ==
    IF simulation THEN << >>
    ELSE [i \in 1..3 |-> DEFAULT_SERVO_MAP[leg][Joints[i]]]

\* a dict leg -> position in insertion order, as a sequence of entries
DictPut(d, leg, pos) ==
    IF \E i \in 1..Len(d) : d[i].leg = leg
    THEN [i \in 1..Len(d) |-> IF d[i].leg = leg THEN [leg |-> leg, pos |-> pos] ELSE d[i]]
    ELSE Append(d, [leg |-> leg, pos |-> pos])

\* big_hex Hexapod.move_all_legs: the frames it sends ...
RECURSIVE MoveAllLegsPrepares(_)
MoveAllLegsPrepares(positions) ==
    IF positions = << >> THEN << >>
    ELSE LET e == Head(positions)
         IN  (IF big_leg_ik_is_None(e.pos[1], e.pos[2], e.pos[3]) THEN << >>
              ELSE PrepareLeg(e.leg))
             \o MoveAllLegsPrepares(Tail(positions))

RECURSIVE MoveAllLegsStartPerLeg(_)
MoveAllLegsStartPerLeg(positions) ==
    IF positions = << >> THEN << >>
    ELSE PrepareLeg(Head(positions).leg) \o << BusMoveStart >>
         \o MoveAllLegsStartPerLeg(Tail(positions))

MoveAllLegsFrames(positions) ==
    MoveAllLegsPrepares(positions) \o << BusMoveStart >>

\* ... and the leg positions it stores
MoveAllLegsPositions(positions, lp) ==
    [leg \in Legs |->
        IF \E i \in 1..Len(positions) :
               /\ positions[i].leg = leg
               /\ ~big_leg_ik_is_None(positions[i].pos[1], positions[i].pos[2],
                                      positions[i].pos[3])
        THEN LET i == CHOOSE i \in 1..Len(positions) : positions[i].leg = leg
             IN  positions[i].pos
        ELSE lp[leg]]

(***************************************************************************)
(* A phase of a gait is a list of moves, each naming a leg and how its     *)
(* target follows from the position the code reads for it:                 *)
(*   shift: (x + a, y + b, .)    turn: (x*a - y*b, x*b + y*a, .)           *)
(*   goto:  (a, b, .)            z: c when absz, else the read z + c       *)
(***************************************************************************)
Move(leg, kind, a, b, absz, c) ==
    [leg |-> leg, kind |-> kind, a |-> a, b |-> b, absz |-> absz, c |-> c]

Target(pos, m) ==
    LET z == IF m.absz THEN m.c ELSE pos[3] + m.c
    IN  CASE m.kind = "shift" -> << pos[1] + m.a, pos[2] + m.b, z >>
          [] m.kind = "turn"  -> << pos[1] * m.a - pos[2] * m.b,
                                    pos[1] * m.b + pos[2] * m.a, z >>
          [] m.kind = "goto"  -> << m.a, m.b, z >>

\* big_hex: positions = {}; positions[leg] = ... read from hex.leg_positions
RECURSIVE BuildPositions(_, _, _)
BuildPositions(moves, lp, d) ==
    IF moves = << >> THEN d
    ELSE LET m == Head(moves)
         IN  BuildPositions(Tail(moves), lp, DictPut(d, m.leg, Target(lp[m.leg], m)))

\* a loop of move_leg calls, each reading hex.leg_positions as it stands
RECURSIVE MoveEach(_, _)
MoveEach(moves, lp) ==
    IF moves = << >> THEN lp
    ELSE LET m == Head(moves)
         IN  MoveEach(Tail(moves), [lp EXCEPT ![m.leg] = Target(lp[m.leg], m)])

RECURSIVE Concat(_)
Concat(ss) == IF ss = << >> THEN << >> ELSE Head(ss) \o Concat(Tail(ss))

\* the phase as big_hex dispatches it with one move_all_legs call
BatchedPhase(moves) ==
    LET positions == BuildPositions(moves, leg_positions, << >>)
    IN  /\ leg_positions' = MoveAllLegsPositions(positions, leg_positions)
        /\ bus' = MoveAllLegsFrames(positions)
        /\ pwm' = << >>

\* the phase as a loop of hex move_leg calls
HexPerLegPhase(moves) ==
    /\ leg_positions' = MoveEach(moves, leg_positions)
    /\ pwm' = Concat([i \in 1..Len(moves) |-> HexSetServos(moves[i].leg)])
    /\ bus' = << >>


\* big_hex Hexapod.move_leg in a loop: nothing is sent and nothing stored for
\* a leg whose leg_ik result is None
RECURSIVE BigMoveEach(_, _)
BigMoveEach(moves, r) ==
    IF moves = << >> THEN r
    ELSE LET m == Head(moves)
             t == Target(r.lp[m.leg], m)
         IN  IF big_leg_ik_is_None(t[1], t[2], t[3])
             THEN BigMoveEach(Tail(moves), r)
             ELSE BigMoveEach(Tail(moves),
                              [lp |-> [r.lp EXCEPT ![m.leg] = t],
                               bus |-> r.bus \o BigSetLegAngles(m.leg)])

BigMoveLegPhase(moves) ==
    LET r == BigMoveEach(moves, [lp |-> leg_positions, bus |-> << >>])
    IN  /\ leg_positions' = r.lp
        /\ bus' = r.bus
        /\ pwm' = << >>

\* how a multi-leg phase of the tripod gaits is dispatched: big_hex calls
\* move_all_legs once, hex calls move_leg leg by leg
TripodDispatch(moves) ==
    IF variant = "big_hex" THEN BatchedPhase(moves) ELSE HexPerLegPhase(moves)

\* how a phase of the wave gaits is dispatched: move_leg leg by leg
PerLegDispatch(moves) ==
    IF variant = "big_hex" THEN BigMoveLegPhase(moves) ELSE HexPerLegPhase(moves)

(***************************************************************************)
(* Leg controller calls on their own (SpecLeg).                            *)
(***************************************************************************)
TargetInputs == { << 120, 0, -80 >> }

\* the legs of S in the key order of the tables
RECURSIVE InOrder(_, _)
InOrder(order, S) ==
    IF order = << >> THEN << >>
    ELSE (IF Head(order) \in S THEN << Head(order) >> ELSE << >>)
         \o InOrder(Tail(order), S)

\* Hexapod.move_leg(leg, x, y, z)
LegMoveLeg(leg, t) ==
    /\ PerLegDispatch(<< Move(leg, "goto", t[1], t[2], TRUE, t[3]) >>)
    /\ phase' = [name |-> "move_leg", gait |-> "none", legs |-> {leg}, slept |-> FALSE]
    /\ UNCHANGED << variant, body_height, stand_height, pc, g, start_pos, cycle, calls >>
    /\ UNCHANGED << codecVars, toolVars >>

\* big_hex Hexapod.move_all_legs(positions), positions a dict over any set of
\* legs, the empty one included
LegMoveAllLegs(targets) ==
    /\ variant = "big_hex"
    /\ LET order == InOrder(BIG_LEG_ORDER, DOMAIN targets)
           moves == [i \in 1..Len(order) |->
                        Move(order[i], "goto", targets[order[i]][1],
                             targets[order[i]][2], TRUE, targets[order[i]][3])]
       IN  BatchedPhase(moves)
    /\ phase' = [name |-> "move_all_legs", gait |-> "none", legs |-> DOMAIN targets,
                 slept |-> FALSE]
    /\ UNCHANGED << variant, body_height, stand_height, pc, g, start_pos, cycle, calls >>
    /\ UNCHANGED << codecVars, toolVars >>

LegNext ==
    \/ \E leg \in Legs, t \in TargetInputs : LegMoveLeg(leg, t)
    \/ \E S \in SUBSET Legs : \E targets \in [S -> TargetInputs] : LegMoveAllLegs(targets)

(***************************************************************************)
(* move_leg and move_all_legs statement by statement (SpecMove): every     *)
(* joint write is a step of its own, and a write to the hardware can       *)
(* raise (serial.write, set_pwm), which ends the call where it stands.     *)
(***************************************************************************)
\* a target in reach and one beyond max_reach of both robots
MoveTargetInputs == { << 120, 0, -80 >>, << 400, 0, 0 >> }

\* the keys of the positions dict of move_all_legs, in insertion order
MoveOrderInputs == { << >>, << "L1", "R2" >>, tripod2 }

\* self.leg_positions[leg] = (x, y, z)
StoreFootAll(lp, leg, pos) == [l \in DOMAIN lp |-> pos]

StoreFoot(lp, leg, pos) == [lp EXCEPT ![leg] = pos]

MoveIdle == mv.at = "idle" /\ calls < MaxCalls

\* Hexapod.move_leg(leg, x, y, z) is called: leg_ik, then the None test of
\* big_hex
MoveLegCall(leg, t) ==
    /\ MoveIdle
    /\ mv' = [op |-> "move_leg", order |-> << leg >>, target |-> t, idx |-> 1,
              joint |-> 1,
              at |-> IF variant = "big_hex" /\ big_leg_ik_is_None(t[1], t[2], t[3])
                     THEN "done" ELSE "write"]
    /\ bus' = << >>
    /\ pwm' = << >>
    /\ start_pos' = leg_positions
    /\ calls' = calls + 1
    /\ UNCHANGED << variant, leg_positions, body_height, stand_height, pc, g, phase, cycle >>
    /\ UNCHANGED << codecVars, calc, calVars, cancel >>

\* big_hex Hexapod.move_all_legs(positions) is called
MoveAllLegsCall(order, t) ==
    /\ MoveIdle
    /\ variant = "big_hex"
    /\ mv' = [op |-> "move_all_legs", order |-> order, target |-> t, idx |-> 1,
              joint |-> 1, at |-> IF order = << >> THEN "start" ELSE "write"]
    /\ bus' = << >>
    /\ pwm' = << >>
    /\ start_pos' = leg_positions
    /\ calls' = calls + 1
    /\ UNCHANGED << variant, leg_positions, body_height, stand_height, pc, g, phase, cycle >>
    /\ UNCHANGED << codecVars, calc, calVars, cancel >>

\* one joint command: bus.move in set_servo of big_hex, set_pwm in set_servo
\* of hex unless it simulates, bus.move_prepare in move_all_legs
JointWrite ==
    /\ mv.at = "write"
    /\ LET leg == mv.order[mv.idx]
           joint == Joints[mv.joint]
       IN  /\ bus' = IF variant # "big_hex" THEN bus
                     ELSE IF mv.op = "move_leg"
                          THEN Append(bus, BusMove(DEFAULT_SERVO_IDS[leg][joint]))
                          ELSE Append(bus, BusMovePrepare(DEFAULT_SERVO_IDS[leg][joint]))
           /\ pwm' = IF variant = "big_hex" \/ simulation THEN pwm
                     ELSE Append(pwm, DEFAULT_SERVO_MAP[leg][joint])
    /\ mv' = IF mv.joint = Len(Joints) THEN [mv EXCEPT !.joint = 1, !.at = "store"]
             ELSE [mv EXCEPT !.joint = mv.joint + 1]
    /\ UNCHANGED << variant, leg_positions, body_height, stand_height, pc, g, phase,
                    start_pos, cycle, calls >>
    /\ UNCHANGED << codecVars, calc, calVars, cancel >>

\* the write raises (the port or the I2C bus fails) and the exception leaves
\* the call; nothing is written when the controller simulates
WriteRaises ==
    /\ mv.at \in {"write", "start"}
    /\ ~simulation
    /\ mv' = [mv EXCEPT !.at = "raised"]
    /\ UNCHANGED robotVars
    /\ UNCHANGED << codecVars, calc, calVars, cancel >>

\* self.leg_positions[leg] = (x, y, z): the last statement of move_leg, and
\* the last statement of the loop body of move_all_legs
StoreFootPosition ==
    /\ mv.at = "store"
    /\ leg_positions' = StoreFoot(leg_positions, mv.order[mv.idx], mv.target)
    /\ mv' = IF mv.op = "move_leg" THEN [mv EXCEPT !.at = "done"]
             ELSE IF mv.idx = Len(mv.order) THEN [mv EXCEPT !.at = "start"]
             ELSE [mv EXCEPT !.idx = mv.idx + 1, !.at = "write"]
    /\ UNCHANGED << variant, body_height, stand_height, bus, pwm, pc, g, phase,
                    start_pos, cycle, calls >>
    /\ UNCHANGED << codecVars, calc, calVars, cancel >>

\* self.bus.move_start() after the loop of move_all_legs
MoveStart ==
    /\ mv.at = "start"
    /\ bus' = Append(bus, BusMoveStart)
    /\ mv' = [mv EXCEPT !.at = "done"]
    /\ UNCHANGED << variant, leg_positions, body_height, stand_height, pwm, pc, g, phase,
                    start_pos, cycle, calls >>
    /\ UNCHANGED << codecVars, calc, calVars, cancel >>

\* the call returns, or its exception reaches the caller
MoveReturn ==
    /\ mv.at \in {"done", "raised"}
    /\ mv' = NoMove
    /\ UNCHANGED robotVars
    /\ UNCHANGED << codecVars, calc, calVars, cancel >>

MoveNext ==
    \/ \E leg \in Legs, t \in MoveTargetInputs : MoveLegCall(leg, t)
    \/ \E order \in MoveOrderInputs, t \in MoveTargetInputs : MoveAllLegsCall(order, t)
    \/ JointWrite
    \/ WriteRaises
    \/ StoreFootPosition
    \/ MoveStart
    \/ MoveReturn

(***************************************************************************)
(* Gait engine (Spec).                                                     *)
(***************************************************************************)
\* the same move for each leg of a list, in the order of the list
ForEach(order, m) == [i \in 1..Len(order) |-> [m EXCEPT !.leg = order[i]]]


\* the arguments of the running _tripod_step / _rotate_tripod call
swing_legs == IF g.half = 1 THEN tripod1 ELSE tripod2
stance_legs == IF g.half = 1 THEN tripod2 ELSE tripod1

\* the gait call returns
Return ==
    /\ pc = "return"
    /\ pc' = "idle"
    /\ g' = NoLocals
    /\ phase' = NoPhase
    /\ start_pos' = leg_positions
    /\ cycle' = << >>
    /\ bus' = << >>
    /\ pwm' = << >>
    /\ UNCHANGED << variant, leg_positions, body_height, stand_height, calls >>
    /\ UNCHANGED << codecVars, toolVars >>

CanCall == pc = "idle" /\ calls < MaxCalls

\* the moves of GaitController.stand(height): big_hex hands
\* h = height or self.stand_height to Hexapod.stand, which takes
\* h or self.body_height; hex keeps x and y of every leg
GaitStandRelative(height) ==
    ForEach(HEX_LEG_ORDER, Move("each", "shift", 0, 0, FALSE, -Or(height, stand_height)))

GaitStandMoves(height) ==
    IF variant = "big_hex"
    THEN ForEach(BIG_LEG_ORDER,
                 Move("each", "goto", BIG_STANCE_X, 0, TRUE,
                      -Or(Or(height, stand_height), body_height)))
    ELSE ForEach(HEX_LEG_ORDER, Move("each", "shift", 0, 0, TRUE, -Or(height, stand_height)))

\* GaitController.stand(height); g.z keeps the argument
Stand(height) ==
    /\ CanCall
    /\ IF variant = "big_hex"
       THEN /\ BatchedPhase(GaitStandMoves(height))
            /\ body_height' = Or(Or(height, stand_height), body_height)
            /\ stand_height' = Or(height, stand_height)
       ELSE /\ HexPerLegPhase(GaitStandMoves(height))
            /\ UNCHANGED << body_height, stand_height >>
    /\ phase' = [name |-> "stand", gait |-> "stand", legs |-> Legs, slept |-> FALSE]
    /\ g' = [NoLocals EXCEPT !.z = height]
    /\ pc' = "return"
    /\ calls' = calls + 1
    /\ UNCHANGED << variant, start_pos, cycle >>
    /\ UNCHANGED << codecVars, toolVars >>

\* hex Hexapod.stand: 80 * cos and 80 * sin of LEG_ANGLES[leg], in whole mm
HexStancePoint ==
    [leg \in Legs |->
        CASE leg = "L1" -> << 69, -40 >> [] leg = "R1" -> << 69, 40 >>
          [] leg = "L2" -> << 0, -80 >>  [] leg = "R2" -> << 0, 80 >>
          [] leg = "L3" -> << -69, -40 >> [] leg = "R3" -> << -69, 40 >>]

\* the moves of Hexapod.stand(height): big_hex h = height or self.body_height
\* and (100, 0, -h) for every leg; hex (80 cos, 80 sin, -height)
HexapodStandMoves(height) ==
    IF variant = "big_hex"
    THEN ForEach(BIG_LEG_ORDER,
                 Move("each", "goto", BIG_STANCE_X, 0, TRUE, -Or(height, body_height)))
    ELSE [i \in 1..Len(HEX_LEG_ORDER) |->
             Move(HEX_LEG_ORDER[i], "goto", HexStancePoint[HEX_LEG_ORDER[i]][1],
                  HexStancePoint[HEX_LEG_ORDER[i]][2], TRUE, -height)]

\* Hexapod.stand(height), called on the leg controller itself
HexapodStand(height) ==
    /\ CanCall
    /\ IF variant = "big_hex"
       THEN /\ BatchedPhase(HexapodStandMoves(height))
            /\ body_height' = Or(height, body_height)
       ELSE /\ HexPerLegPhase(HexapodStandMoves(height))
            /\ UNCHANGED body_height
    /\ phase' = [name |-> "stand", gait |-> "hexapod_stand", legs |-> Legs, slept |-> FALSE]
    /\ g' = [NoLocals EXCEPT !.z = height]
    /\ pc' = "return"
    /\ calls' = calls + 1
    /\ UNCHANGED << variant, stand_height, start_pos, cycle >>
    /\ UNCHANGED << codecVars, toolVars >>

\* GaitController.sit(): big_hex calls Hexapod.sit, which stands at 30 mm;
\* hex calls its own stand(20)
Sit ==
    /\ CanCall
    /\ IF variant = "big_hex"
       THEN LET hh == Or(BIG_SIT_HEIGHT, body_height)
                SitMove == Move("each", "goto", BIG_STANCE_X, 0, TRUE, -hh)
            IN  /\ BatchedPhase(ForEach(BIG_LEG_ORDER, SitMove))
                /\ body_height' = hh
                /\ UNCHANGED stand_height
       ELSE LET h == Or(HEX_SIT_HEIGHT, stand_height)
                SitMove == Move("each", "shift", 0, 0, TRUE, -h)
            IN  /\ HexPerLegPhase(ForEach(HEX_LEG_ORDER, SitMove))
                /\ UNCHANGED << body_height, stand_height >>
    /\ phase' = [name |-> "sit", gait |-> "sit", legs |-> Legs, slept |-> FALSE]
    /\ pc' = "return"
    /\ calls' = calls + 1
    /\ UNCHANGED << variant, g, start_pos, cycle >>
    /\ UNCHANGED << codecVars, toolVars >>

\* the defaults of hex's keyword arguments (an omitted argument is input 0)
HEX_WALK_STEP_LENGTH == 40
HEX_WALK_STEP_HEIGHT == 30
HEX_ROTATE_STEP_HEIGHT == 25
HEX_WAVE_STEP_LENGTH == 30
HEX_WAVE_STEP_HEIGHT == 30

\* GaitController.walk up to its loop: the step vector and the lift height
WalkStart(direction, steps, step_length, step_height) ==
    /\ CanCall
    /\ LET sl == IF variant = "big_hex" THEN Or(step_length, BIG_STEP_LENGTH)
                 ELSE Or(step_length, HEX_WALK_STEP_LENGTH)
           sh == IF variant = "big_hex" THEN Or(step_height, BIG_STEP_HEIGHT)
                 ELSE Or(step_height, HEX_WALK_STEP_HEIGHT)
       IN  g' = [NoLocals EXCEPT !.gait = "walk", !.dx = sl * Cos(direction),
                                 !.dy = sl * Sin(direction), !.lift = sh,
                                 !.steps = steps, !.step = 1, !.half = 1]
    /\ pc' = "lift"
    /\ calls' = calls + 1
    /\ UNCHANGED << variant, leg_positions, body_height, stand_height, bus, pwm, phase,
                    start_pos, cycle >>
    /\ UNCHANGED << codecVars, toolVars >>

\* how far a swing leg is moved in sub-phase 2 of _tripod_step:
\* big_hex (x + dx, y + dy), hex (x + dx/2, y + dy/2)
SwingAdvanceFull(d) == d

SwingAdvance(d) == IF variant = "big_hex" THEN d ELSE d \div 2

\* how far a stance leg is moved in sub-phase 2: (x - dx/2, y - dy/2)
StancePushFull(d) == -d

StancePush(d) == -(d \div 2)

\* the height swing legs are lowered to: -self.stand_height
PlantZShort == 10 - stand_height

PlantZ == -stand_height

\* _tripod_step: lift the swing legs, then sleep
TripodLift ==
    /\ pc = "lift"
    /\ LET LiftMove == Move("each", "shift", 0, 0, FALSE, g.lift)
       IN  TripodDispatch(ForEach(swing_legs, LiftMove))
    /\ phase' = [name |-> "lift", gait |-> g.gait, legs |-> SetOf(swing_legs),
                 slept |-> TRUE]
    /\ start_pos' = leg_positions
    /\ cycle' = (IF g.half = 1 THEN << >> ELSE cycle)
                \o << [swing |-> SetOf(swing_legs), stance |-> SetOf(stance_legs),
                      from |-> leg_positions] >>
    /\ pc' = "swing"
    /\ UNCHANGED << variant, body_height, stand_height, g, calls >>
    /\ UNCHANGED << codecVars, toolVars >>

\* _tripod_step: swing forward and push back, then sleep
TripodSwing ==
    /\ pc = "swing"
    /\ LET SwingMove ==
               Move("each", "shift", SwingAdvance(g.dx), SwingAdvance(g.dy), FALSE, 0)
           StanceMove ==
               Move("each", "shift", StancePush(g.dx), StancePush(g.dy), FALSE, 0)
       IN  TripodDispatch(ForEach(swing_legs, SwingMove)
                          \o ForEach(stance_legs, StanceMove))
    /\ phase' = [name |-> "swing", gait |-> g.gait,
                 legs |-> SetOf(swing_legs) \cup SetOf(stance_legs), slept |-> TRUE]
    /\ pc' = "lower"
    /\ UNCHANGED << variant, body_height, stand_height, g, start_pos, cycle, calls >>
    /\ UNCHANGED << codecVars, toolVars >>

\* the loops of walk and rotate: the second half-cycle, the next cycle, or
\* the end; halves counts the _tripod_step / _rotate_tripod calls that returned
NextHalf ==
    IF g.half = 1 THEN /\ g' = [g EXCEPT !.half = 2, !.halves = g.halves + 1]
                       /\ pc' = IF g.gait = "walk" THEN "lift" ELSE "rot_lift"
    ELSE IF g.step < g.steps
    THEN /\ g' = [g EXCEPT !.half = 1, !.step = g.step + 1, !.halves = g.halves + 1]
         /\ pc' = IF g.gait = "walk" THEN "lift" ELSE "rot_lift"
    ELSE /\ g' = [g EXCEPT !.halves = g.halves + 1]
         /\ pc' = "return"

\* _tripod_step: lower the swing legs, then sleep
TripodLower ==
    /\ pc = "lower"
    /\ LET LowerMove == Move("each", "shift", 0, 0, TRUE, PlantZ)
       IN  TripodDispatch(ForEach(swing_legs, LowerMove))
    /\ phase' = [name |-> "lower", gait |-> g.gait, legs |-> SetOf(swing_legs),
                 slept |-> TRUE]
    /\ NextHalf
    /\ UNCHANGED << variant, body_height, stand_height, start_pos, cycle, calls >>
    /\ UNCHANGED << codecVars, toolVars >>

\* GaitController.rotate up to its loop; rad = radians(angle / 2)
RotationInputs == {180, 540}

RotateStart(angle, steps, step_height) ==
    /\ CanCall
    /\ LET sh == IF variant = "big_hex" THEN Or(step_height, BIG_STEP_HEIGHT)
                 ELSE Or(step_height, HEX_ROTATE_STEP_HEIGHT)
       IN  g' = [NoLocals EXCEPT !.gait = "rotate", !.dx = Cos(angle \div 2),
                                 !.dy = Sin(angle \div 2), !.lift = sh,
                                 !.steps = steps, !.step = 1, !.half = 1]
    /\ pc' = "rot_lift"
    /\ calls' = calls + 1
    /\ UNCHANGED << variant, leg_positions, body_height, stand_height, bus, pwm, phase,
                    start_pos, cycle >>
    /\ UNCHANGED << codecVars, toolVars >>

\* _rotate_tripod: lift the swing legs, then sleep
RotateLift ==
    /\ pc = "rot_lift"
    /\ LET LiftMove == Move("each", "shift", 0, 0, FALSE, g.lift)
       IN  TripodDispatch(ForEach(swing_legs, LiftMove))
    /\ phase' = [name |-> "lift", gait |-> g.gait, legs |-> SetOf(swing_legs),
                 slept |-> TRUE]
    /\ start_pos' = leg_positions
    /\ cycle' = (IF g.half = 1 THEN << >> ELSE cycle)
                \o << [swing |-> SetOf(swing_legs), stance |-> SetOf(stance_legs),
                      from |-> leg_positions] >>
    /\ pc' = "rot_turn"
    /\ UNCHANGED << variant, body_height, stand_height, g, calls >>
    /\ UNCHANGED << codecVars, toolVars >>

\* _rotate_tripod: rotate swing legs with the turn and stance legs against
\* it, then sleep; g.dx, g.dy hold cos_r, sin_r
RotateTurn ==
    /\ pc = "rot_turn"
    /\ LET SwingMove == Move("each", "turn", g.dx, g.dy, TRUE, PlantZ)
           StanceMove == Move("each", "turn", g.dx, -g.dy, FALSE, 0)
       IN  TripodDispatch(ForEach(swing_legs, SwingMove)
                          \o ForEach(stance_legs, StanceMove))
    /\ phase' = [name |-> "turn", gait |-> g.gait,
                 legs |-> SetOf(swing_legs) \cup SetOf(stance_legs), slept |-> TRUE]
    /\ NextHalf
    /\ UNCHANGED << variant, body_height, stand_height, start_pos, cycle, calls >>
    /\ UNCHANGED << codecVars, toolVars >>

\* wave_walk up to its loops
WaveSequence == IF variant = "big_hex" THEN wave_sequence ELSE hex_wave_sequence

WaveStart(direction, cycles, step_length, step_height) ==
    /\ CanCall
    /\ LET sl == IF variant = "big_hex" THEN Or(step_length, BIG_STEP_LENGTH)
                 ELSE Or(step_length, HEX_WAVE_STEP_LENGTH)
           sh == IF variant = "big_hex" THEN Or(step_height, BIG_STEP_HEIGHT)
                 ELSE Or(step_height, HEX_WAVE_STEP_HEIGHT)
       IN  g' = [NoLocals EXCEPT !.gait = "wave", !.dx = sl * Cos(direction),
                                 !.dy = sl * Sin(direction), !.lift = sh,
                                 !.steps = cycles, !.step = 1, !.idx = 1]
    /\ pc' = "wave_lift"
    /\ calls' = calls + 1
    /\ UNCHANGED << variant, leg_positions, body_height, stand_height, bus, pwm, phase,
                    start_pos, cycle >>
    /\ UNCHANGED << codecVars, toolVars >>

\* the leg that steps: x, y, z = leg_positions[leg]; lift it, then sleep
WaveLift ==
    /\ pc = "wave_lift"
    /\ LET leg == WaveSequence[g.idx]
           p == leg_positions[leg]
       IN  /\ g' = [g EXCEPT !.x = p[1], !.y = p[2], !.z = p[3],
                              !.stepped = IF g.idx = 1 THEN << >> ELSE g.stepped]
           /\ PerLegDispatch(<< Move(leg, "goto", p[1], p[2], TRUE, p[3] + g.lift) >>)
           /\ phase' = [name |-> "lift", gait |-> "wave", legs |-> {leg}, slept |-> TRUE]
    /\ start_pos' = IF g.idx = 1 THEN leg_positions ELSE start_pos
    /\ pc' = "wave_swing"
    /\ UNCHANGED << variant, body_height, stand_height, cycle, calls >>
    /\ UNCHANGED << codecVars, toolVars >>

\* swing it forward, then sleep
WaveSwing ==
    /\ pc = "wave_swing"
    /\ LET leg == WaveSequence[g.idx]
       IN  /\ PerLegDispatch(<< Move(leg, "goto", g.x + g.dx, g.y + g.dy, TRUE,
                                     g.z + g.lift) >>)
           /\ phase' = [name |-> "swing", gait |-> "wave", legs |-> {leg}, slept |-> TRUE]
    /\ pc' = "wave_lower"
    /\ UNCHANGED << variant, body_height, stand_height, g, start_pos, cycle, calls >>
    /\ UNCHANGED << codecVars, toolVars >>

\* the loops of wave_walk: the next leg, the next cycle, or the end
NextWaveLeg ==
    IF g.idx < Len(WaveSequence)
    THEN /\ g' = [g EXCEPT !.idx = g.idx + 1]
         /\ pc' = "wave_lift"
    ELSE IF g.step < g.steps
    THEN /\ g' = [g EXCEPT !.idx = 1, !.step = g.step + 1]
         /\ pc' = "wave_lift"
    ELSE /\ g' = g
         /\ pc' = "return"

\* plant it at -stand_height, then sleep; hex goes on to the next leg, or to
\* _shift_all_legs after the sixth; stepped lists the legs that have made
\* their step in this cycle
WaveLower ==
    /\ pc = "wave_lower"
    /\ LET leg == WaveSequence[g.idx]
       IN  /\ PerLegDispatch(<< Move(leg, "goto", g.x + g.dx, g.y + g.dy, TRUE,
                                     PlantZ) >>)
           /\ phase' = [name |-> "lower", gait |-> "wave", legs |-> {leg}, slept |-> TRUE]
    /\ pc' = IF variant = "big_hex" THEN "wave_push"
             ELSE IF g.idx < Len(WaveSequence) THEN "wave_lift" ELSE "wave_shift"
    /\ g' = [g EXCEPT !.stepped = Append(g.stepped, WaveSequence[g.idx]),
                      !.idx = IF variant = "hex" /\ g.idx < Len(WaveSequence)
                              THEN g.idx + 1 ELSE g.idx]
    /\ UNCHANGED << variant, body_height, stand_height, start_pos, cycle, calls >>
    /\ UNCHANGED << codecVars, toolVars >>

\* push_dx = -dx / 5, push_dy = -dy / 5
WavePushSixth(d) == (-d) \div 6

WavePushShare(d) == (-d) \div 5

\* big_hex wave_walk: all other legs push by (-dx/5, -dy/5), one move_leg
\* call per leg; no sleep follows
WavePush ==
    /\ pc = "wave_push"
    /\ variant = "big_hex"
    /\ LET leg == WaveSequence[g.idx]
           others == InOrder(BIG_LEG_ORDER, Legs \ {leg})
           PushMove ==
               Move("each", "shift", WavePushShare(g.dx), WavePushShare(g.dy), FALSE, 0)
       IN  /\ PerLegDispatch(ForEach(others, PushMove))
           /\ phase' = [name |-> "push", gait |-> "wave", legs |-> SetOf(others),
                        slept |-> FALSE]
    /\ NextWaveLeg
    /\ UNCHANGED << variant, body_height, stand_height, start_pos, cycle, calls >>
    /\ UNCHANGED << codecVars, toolVars >>

\* hex wave_walk: _shift_all_legs(-dx, -dy, leg_time) after the full wave
WaveShift ==
    /\ pc = "wave_shift"
    /\ variant = "hex"
    /\ LET ShiftMove == Move("each", "shift", -g.dx, -g.dy, FALSE, 0)
       IN  PerLegDispatch(ForEach(HEX_LEG_ORDER, ShiftMove))
    /\ phase' = [name |-> "shift", gait |-> "wave", legs |-> Legs, slept |-> TRUE]
    /\ IF g.step < g.steps
       THEN pc' = "wave_lift" /\ g' = [g EXCEPT !.idx = 1, !.step = g.step + 1]
       ELSE pc' = "return" /\ g' = g
    /\ UNCHANGED << variant, body_height, stand_height, start_pos, cycle, calls >>
    /\ UNCHANGED << codecVars, toolVars >>

\* the defaults of RippleGait.walk
HEX_RIPPLE_STEP_LENGTH == 25
HEX_RIPPLE_STEP_HEIGHT == 25

\* RippleGait.walk up to its loops
RippleStart(direction, steps, step_length, step_height) ==
    /\ CanCall
    /\ variant = "hex"
    /\ LET sl == Or(step_length, HEX_RIPPLE_STEP_LENGTH)
           sh == Or(step_height, HEX_RIPPLE_STEP_HEIGHT)
       IN  g' = [NoLocals EXCEPT !.gait = "ripple", !.dx = sl * Cos(direction),
                                 !.dy = sl * Sin(direction), !.lift = sh,
                                 !.steps = steps, !.step = 1, !.idx = 1]
    /\ pc' = "ripple_step"
    /\ calls' = calls + 1
    /\ UNCHANGED << variant, leg_positions, body_height, stand_height, bus, pwm, phase,
                    start_pos, cycle >>
    /\ UNCHANGED << codecVars, toolVars >>

\* _step_leg: x, y, z = leg_positions[leg]; lift and swing in one move, then
\* sleep(t)
RippleStep ==
    /\ pc = "ripple_step"
    /\ LET leg == ripple_sequence[g.idx]
           p == leg_positions[leg]
       IN  /\ g' = [g EXCEPT !.x = p[1], !.y = p[2], !.z = p[3],
                              !.stepped = IF g.idx = 1 THEN << >> ELSE g.stepped]
           /\ PerLegDispatch(<< Move(leg, "goto", p[1] + g.dx, p[2] + g.dy, TRUE,
                                     p[3] + g.lift) >>)
           /\ phase' = [name |-> "swing", gait |-> "ripple", legs |-> {leg},
                        slept |-> TRUE]
    /\ start_pos' = IF g.idx = 1 THEN leg_positions ELSE start_pos
    /\ pc' = "ripple_plant"
    /\ UNCHANGED << variant, body_height, stand_height, cycle, calls >>
    /\ UNCHANGED << codecVars, toolVars >>

\* _step_leg: plant at -self.stand_height, then sleep(t / 2)
RipplePlant ==
    /\ pc = "ripple_plant"
    /\ LET leg == ripple_sequence[g.idx]
       IN  /\ PerLegDispatch(<< Move(leg, "goto", g.x + g.dx, g.y + g.dy, TRUE,
                                     -HEX_STAND_HEIGHT) >>)
           /\ phase' = [name |-> "lower", gait |-> "ripple", legs |-> {leg},
                        slept |-> TRUE]
           /\ g' = [g EXCEPT !.stepped = Append(g.stepped, leg)]
    /\ pc' = "ripple_shift"
    /\ UNCHANGED << variant, body_height, stand_height, start_pos, cycle, calls >>
    /\ UNCHANGED << codecVars, toolVars >>

\* walk: the other five legs are shifted by (-dx/6, -dy/6), one move_leg call
\* per leg; no sleep follows; then the next leg, the next cycle, or the end
RippleShift ==
    /\ pc = "ripple_shift"
    /\ LET leg == ripple_sequence[g.idx]
           others == InOrder(ripple_sequence, Legs \ {leg})
           ShiftMove ==
               Move("each", "shift", -IntTrunc(g.dx, 6), -IntTrunc(g.dy, 6), FALSE, 0)
       IN  /\ PerLegDispatch(ForEach(others, ShiftMove))
           /\ phase' = [name |-> "shift", gait |-> "ripple", legs |-> SetOf(others),
                        slept |-> FALSE]
    /\ IF g.idx < Len(ripple_sequence)
       THEN pc' = "ripple_step" /\ g' = [g EXCEPT !.idx = g.idx + 1]
       ELSE IF g.step < g.steps
       THEN pc' = "ripple_step" /\ g' = [g EXCEPT !.idx = 1, !.step = g.step + 1]
       ELSE pc' = "return" /\ g' = g
    /\ UNCHANGED << variant, body_height, stand_height, start_pos, cycle, calls >>
    /\ UNCHANGED << codecVars, toolVars >>

GaitNext ==
    \/ \E height \in HeightInputs : Stand(height)
    \/ \E height \in HeightInputs : HexapodStand(height)
    \/ Sit
    \/ \E direction \in DirectionInputs, steps \in 1..MaxSteps,
          step_length \in StepLengthInputs, step_height \in StepHeightInputs :
           WalkStart(direction, steps, step_length, step_height)
    \/ TripodLift
    \/ TripodSwing
    \/ TripodLower
    \/ \E angle \in RotationInputs, steps \in 1..MaxSteps,
          step_height \in StepHeightInputs : RotateStart(angle, steps, step_height)
    \/ RotateLift
    \/ RotateTurn
    \/ \E direction \in WaveDirectionInputs, cycles \in 1..MaxSteps,
          step_length \in StepLengthInputs, step_height \in StepHeightInputs :
           WaveStart(direction, cycles, step_length, step_height)
    \/ WaveLift
    \/ WaveSwing
    \/ WaveLower
    \/ WavePush
    \/ WaveShift
    \/ \E direction \in WaveDirectionInputs, steps \in 1..MaxSteps,
          step_length \in StepLengthInputs, step_height \in StepHeightInputs :
           RippleStart(direction, steps, step_length, step_height)
    \/ RippleStep
    \/ RipplePlant
    \/ RippleShift
    \/ Return

(***************************************************************************)
(* big_hex body movements (SpecBody).                                      *)
(***************************************************************************)
\* shifts of the body along each axis, in mm
ShiftInputs == {-20, 0, 20}

\* positions[leg] = (x - dx, y - dy, z - dz) for leg in self.all_legs
BodyShiftForward(dx, dy, dz) ==
    ForEach(BIG_LEG_ORDER, Move("each", "shift", dx, -dy, FALSE, -dz))

BodyShiftMoves(dx, dy, dz) ==
    ForEach(BIG_LEG_ORDER, Move("each", "shift", -dx, -dy, FALSE, -dz))

\* GaitController.body_shift(dx, dy, dz): one move_all_legs call
BodyShift(dx, dy, dz) ==
    /\ CanCall
    /\ variant = "big_hex"
    /\ BatchedPhase(BodyShiftMoves(dx, dy, dz))
    /\ phase' = [name |-> "shift", gait |-> "body_shift", legs |-> Legs, slept |-> FALSE]
    /\ g' = [NoLocals EXCEPT !.gait = "body_shift", !.x = dx, !.y = dy, !.z = dz]
    /\ start_pos' = leg_positions
    /\ pc' = "return"
    /\ calls' = calls + 1
    /\ UNCHANGED << variant, body_height, stand_height, cycle >>
    /\ UNCHANGED << codecVars, toolVars >>

BodyNext ==
    \/ \E dx \in ShiftInputs, dy \in ShiftInputs, dz \in ShiftInputs : BodyShift(dx, dy, dz)
    \/ Return

(***************************************************************************)
(* The startup and shutdown sequences of hex (SpecPose).                   *)
(***************************************************************************)
HEX_STANCE_WIDTH == 80
HEX_CURL_X == 30
HEX_CURL_Z == 20
HEX_FLAT_Z == 10
HEX_POSE_STEP == 10

\* values of GaitController.stand_height: the one of __init__, one below
\* the first step of _get_up, one between two steps
StandHeightInputs == {5, 50, 55}

\* the caller sets the attribute stand_height of the gait controller
SetStandHeight(h) ==
    /\ pc = "idle"
    /\ variant = "hex"
    /\ stand_height # h
    /\ stand_height' = h
    /\ UNCHANGED << variant, leg_positions, body_height, bus, pwm, pc, g, phase,
                    start_pos, cycle, calls >>
    /\ UNCHANGED << codecVars, toolVars >>

\* boot_up() / shut_down() is called; range(self.stand_height, 9, -10) of
\* _lie_down is empty when stand_height is below 10
PoseStart(gait) ==
    /\ CanCall
    /\ variant = "hex"
    /\ g' = [NoLocals EXCEPT !.gait = gait, !.z = stand_height]
    /\ pc' = IF gait = "boot_up" THEN "curl"
             ELSE IF stand_height > HEX_POSE_STEP - 1 THEN "lie_down" ELSE "curl"
    /\ phase' = NoPhase
    /\ start_pos' = leg_positions
    /\ cycle' = << >>
    /\ bus' = << >>
    /\ pwm' = << >>
    /\ calls' = calls + 1
    /\ UNCHANGED << variant, leg_positions, body_height, stand_height >>
    /\ UNCHANGED << codecVars, toolVars >>

PosePhase(name, moves) ==
    /\ HexPerLegPhase(moves)
    /\ phase' = [name |-> name, gait |-> g.gait, legs |-> Legs, slept |-> TRUE]
    /\ UNCHANGED << variant, body_height, stand_height, start_pos, cycle, calls >>
    /\ UNCHANGED << codecVars, toolVars >>

\* _curl_up, then sleep(t)
CurlUp ==
    /\ pc = "curl"
    /\ PosePhase("curl", ForEach(HEX_LEG_ORDER,
                     Move("each", "goto", HEX_CURL_X, 0, TRUE, -HEX_CURL_Z)))
    /\ g' = [g EXCEPT !.stepped = Append(g.stepped, "curl")]
    /\ pc' = IF g.gait = "boot_up" THEN "flat" ELSE "disable"

\* _lie_flat, then sleep(t); range(10, self.stand_height + 1, 10) of _get_up
\* is empty when stand_height is below 10
LieFlat ==
    /\ pc = "flat"
    /\ PosePhase("flat", ForEach(HEX_LEG_ORDER,
                     Move("each", "goto", HEX_STANCE_WIDTH, 0, TRUE, -HEX_FLAT_Z)))
    /\ g' = [g EXCEPT !.stepped = Append(g.stepped, "flat"), !.z = HEX_POSE_STEP]
    /\ pc' = IF HEX_POSE_STEP < stand_height + 1 THEN "get_up" ELSE "return"

\* one round of the loop of _get_up: every leg to -height, sleep(0.1);
\* after the last round boot_up sleeps and returns
GetUp ==
    /\ pc = "get_up"
    /\ PosePhase("get_up", ForEach(HEX_LEG_ORDER,
                     Move("each", "shift", 0, 0, TRUE, -g.z)))
    /\ g' = [g EXCEPT !.stepped = Append(g.stepped, "get_up"), !.z = g.z + HEX_POSE_STEP]
    /\ pc' = IF g.z + HEX_POSE_STEP < stand_height + 1 THEN "get_up" ELSE "return"

\* one round of the loop of _lie_down: every leg to -height, sleep(0.1)
LieDown ==
    /\ pc = "lie_down"
    /\ PosePhase("lie_down", ForEach(HEX_LEG_ORDER,
                     Move("each", "shift", 0, 0, TRUE, -g.z)))
    /\ g' = [g EXCEPT !.stepped = Append(g.stepped, "lie_down"), !.z = g.z - HEX_POSE_STEP]
    /\ pc' = IF g.z - HEX_POSE_STEP > HEX_POSE_STEP - 1 THEN "lie_down" ELSE "curl"

\* Hexapod.shutdown: set_pwm(channel, 0) for every joint of servo_map, and
\* nothing at all when the controller simulates
DisableFirstBoard ==
    SelectSeq(Concat([i \in 1..Len(HEX_LEG_ORDER) |->
                  [j \in 1..3 |-> DEFAULT_SERVO_MAP[HEX_LEG_ORDER[i]][Joints[j]] \o << 0 >>]]),
              LAMBDA w : w[1] = 0)

DisableWrites ==
    Concat([i \in 1..Len(HEX_LEG_ORDER) |->
               [j \in 1..3 |-> DEFAULT_SERVO_MAP[HEX_LEG_ORDER[i]][Joints[j]] \o << 0 >>]])

Disable ==
    /\ pc = "disable"
    /\ pwm' = IF simulation THEN << >> ELSE DisableWrites
    /\ bus' = << >>
    /\ phase' = [name |-> "disable", gait |-> g.gait, legs |-> Legs, slept |-> FALSE]
    /\ g' = [g EXCEPT !.stepped = Append(g.stepped, "disable")]
    /\ pc' = "return"
    /\ UNCHANGED << variant, leg_positions, body_height, stand_height, start_pos,
                    cycle, calls >>
    /\ UNCHANGED << codecVars, toolVars >>

PoseNext ==
    \/ \E h \in StandHeightInputs : SetStandHeight(h)
    \/ \E gait \in {"boot_up", "shut_down"} : PoseStart(gait)
    \/ CurlUp
    \/ LieFlat
    \/ GetUp
    \/ LieDown
    \/ Disable
    \/ \E height \in HeightInputs : Stand(height)
    \/ Return

(***************************************************************************)
(* A walk and a request to stop it (SpecCancel).  GaitController has no    *)
(* attribute or argument for such a request, and walk and _tripod_step     *)
(* read none: the request changes nothing the gait actions look at.        *)
(***************************************************************************)
RequestCancel ==
    /\ pc \in {"lift", "swing", "lower"}
    /\ ~cancel.requested
    /\ cancel' = [requested |-> TRUE, positions |-> leg_positions, phase |-> phase]
    /\ UNCHANGED << codecVars, robotVars, calc, calVars, mv >>

CancelNext ==
    \/ \E direction \in DirectionInputs, steps \in 1..MaxSteps,
          step_length \in StepLengthInputs, step_height \in StepHeightInputs :
           WalkStart(direction, steps, step_length, step_height)
    \/ TripodLift
    \/ TripodSwing
    \/ TripodLower
    \/ Return
    \/ RequestCancel

(***************************************************************************)
(* The conversion functions on their own (SpecCalc): each action is one    *)
(* call, with its arguments and its outcome kept in calc.                  *)
(***************************************************************************)
\* bytes([...]) raises ValueError for an element outside range(0, 256)
BYTE_MAX == 255

\* the outcome of a call: what it raised, or the value it returned
Raised(e) == [raised |-> e, value |-> << >>]
Returned(v) == [raised |-> "none", value |-> v]
\* an Optional[int] that is not None
Some(v) == << v >>
ValueError == Raised("ValueError")

BytesRaises(values) == \E i \in 1..Len(values) : values[i] \notin 0..BYTE_MAX

\* _build_packet with its exception: the only statement that can raise is
\* bytes([FRAME_HEADER, FRAME_HEADER, servo_id, length, cmd])
BuildPacketNeverRaises(servo_id, cmd, params) ==
    Returned(LX16A_build_packet(servo_id % 256, cmd % 256, params))

BuildPacketOutcome(servo_id, cmd, params) ==
    IF BytesRaises(<< FRAME_HEADER, FRAME_HEADER, servo_id, PacketLength(params), cmd >>)
    THEN ValueError
    ELSE Returned(LX16A_build_packet(servo_id, cmd, params))

\* arguments of _build_packet around the edges of a byte; params of n bytes
WideIdInputs == {-1, 0, BROADCAST_ID, BYTE_MAX, BYTE_MAX + 1}
WideCmdInputs == {-1, CMD_MOVE_TIME_WRITE, BYTE_MAX, BYTE_MAX + 1}
LongLengthInputs == {0, 1, BYTE_MAX - 4, BYTE_MAX - 3, BYTE_MAX - 2}
Filled(n, b) == [i \in 1..n |-> b]

BuildPacket(servo_id, cmd, params) ==
    /\ calc' = [op |-> "build_packet", in |-> << servo_id, cmd, params >>,
                out |-> BuildPacketOutcome(servo_id, cmd, params)]
    /\ UNCHANGED << codecVars, robotVars, calVars, mv, cancel >>

\* clamp(val, min_val, max_val) = max(min_val, min(max_val, val))
clamp(val, min_val, max_val) == Max(min_val, Min(max_val, val))

\* the angle domain and the position range of an LX-16A, and the angle
\* domain of a PWM servo
BIG_ANGLE_MAX == 240
BIG_POSITION_MAX == 1000
HEX_ANGLE_MAX == 180

\* the direction step of big_hex _angle_to_position: if direction < 0:
\* angle = 240 - angle
BigMirrorDropped(angle, direction) == angle

BigMirror(angle, direction) == IF direction < 0 THEN BIG_ANGLE_MAX - angle ELSE angle

\* position = int(angle * 1000 / 240); position += offset
BigRawPositionOffsetFirst(angle, offset) ==
    IntTrunc((angle + offset) * BIG_POSITION_MAX, BIG_ANGLE_MAX)

BigRawPosition(angle, offset) ==
    IntTrunc(angle * BIG_POSITION_MAX, BIG_ANGLE_MAX) + offset

\* big_hex Hexapod._angle_to_position; offset is
\* calibration.get(str(servo_id), {}).get('offset', 0)
AngleToPosition(angle, direction, offset) ==
    clamp(BigRawPosition(BigMirror(angle, direction), offset), 0, BIG_POSITION_MAX)

\* hex Hexapod.angle_to_pulse: the angle is clamped to 0..180, then
\* int(min + (angle / 180.0) * (max - min))
angle_to_pulse(sr, angle) ==
    LET a == clamp(angle, 0, HEX_ANGLE_MAX)
    IN  IntTrunc(sr.min * HEX_ANGLE_MAX + a * (sr.max - sr.min), HEX_ANGLE_MAX)

\* hex Hexapod.set_servo: the pulse handed to set_pwm
SetServoPulse(sr, direction, angle) ==
    angle_to_pulse(sr, IF direction < 0 THEN HEX_ANGLE_MAX - angle ELSE angle)

\* arguments of the conversions: angles inside and outside the domain, both
\* directions, stored offsets, and calibrated ranges as the calibration file
\* can hold them
BigAngleInputs == {-30, 0, 1, 100, 120, 239, 240, 270}
HexAngleInputs == {-30, 0, 1, 90, 179, 180, 200}
ServoDirInputs == {1, -1}
OffsetInputs == {-1500, -30, 0, 30}
SERVO_MIN == 500
SERVO_MAX == 2500
SERVO_CENTER == 1500
DefaultRange == [min |-> SERVO_MIN, max |-> SERVO_MAX, center |-> SERVO_CENTER]
RangeInputs ==
    { DefaultRange,
      [min |-> 600, max |-> 2400, center |-> 1500],
      [min |-> 2000, max |-> 1000, center |-> 1500] }

BigAngleToPosition(angle, direction, offset) ==
    /\ calc' = [op |-> "angle_to_position", in |-> << angle, direction, offset >>,
                out |-> Returned(AngleToPosition(angle, direction, offset))]
    /\ UNCHANGED << codecVars, robotVars, calVars, mv, cancel >>

HexSetServo(sr, direction, angle) ==
    /\ calc' = [op |-> "set_servo", in |-> << angle, direction, sr >>,
                out |-> Returned(SetServoPulse(sr, direction, angle))]
    /\ UNCHANGED << codecVars, robotVars, calVars, mv, cancel >>

\* foot targets: in reach, too far, at the origin, inside the coxa, too near
IkInputs ==
    { << 120, 0, -80 >>, << 400, 0, 0 >>, << 0, 0, 0 >>, << 10, 0, -60 >>,
      << 60, 0, -10 >>, << 30, 40, -250 >>, << 0, 150, -60 >> }

LegIk(v, x, y, z) ==
    /\ calc' = [op |-> "leg_ik", in |-> << v, x, y, z >>,
                out |-> Returned(IF v = "big_hex" THEN big_leg_ik(x, y, z)
                                 ELSE hex_leg_ik(x, y, z))]
    /\ UNCHANGED << codecVars, robotVars, calVars, mv, cancel >>

\* link geometries (coxa_len, femur_len, tibia_len): the two robots and a
\* leg with femur and tibia of equal length
GeometryInputs == { << 50, 80, 120 >>, << 25, 55, 75 >>, << 25, 55, 55 >> }

\* foot targets whose distance from the coxa axis is a whole number
SolveInputs ==
    { << 80, 0, -50 >>, << 120, 0, -80 >>, << 400, 0, 0 >>, << 0, 0, 0 >>,
      << 10, 0, -60 >>, << 25, 0, 0 >>, << 50, 0, 0 >>, << 30, 40, -250 >>,
      << 0, 150, -60 >> }

ZeroDivisionError == Raised("ZeroDivisionError")

\* leg_ik up to the two divisions of the law of cosines; reach2 is the
\* square of the foot_dist they use.  The cosines are clamped into [-1, 1]
\* before acos and the angles into the servo range before the return.
LegIkReach(x, y, z, coxa_len, femur_len, tibia_len) ==
    LET r == Isqrt(x * x + y * y)
        xy_dist == IF r - coxa_len < 0 THEN 1 ELSE r - coxa_len
        raw2 == xy_dist * xy_dist + z * z
        max_reach == femur_len + tibia_len
        min_reach == Abs(femur_len - tibia_len)
        clamped == raw2 > max_reach * max_reach \/ raw2 < min_reach * min_reach
        reach2 == IF clamped
                  THEN Max((min_reach + 1) * (min_reach + 1),
                           Min((max_reach - 1) * (max_reach - 1), raw2))
                  ELSE raw2
    IN  IF femur_len * tibia_len = 0 \/ femur_len * reach2 = 0
        THEN ZeroDivisionError
        ELSE Returned([reach2 |-> reach2, clamped |-> clamped,
                       min_reach |-> min_reach, max_reach |-> max_reach])

LegIkSolve(geometry, t) ==
    /\ calc' = [op |-> "leg_ik_solve", in |-> << geometry, t >>,
                out |-> LegIkReach(t[1], t[2], t[3], geometry[1], geometry[2],
                                   geometry[3])]
    /\ UNCHANGED << codecVars, robotVars, calVars, mv, cancel >>

\* degrees(atan2(y, x)) for a target on one of the four axes of the leg frame
Atan2Degrees(y, x) ==
    CASE y = 0 /\ x > 0 -> 0
      [] y > 0 /\ x = 0 -> 90
      [] y = 0 /\ x < 0 -> 180
      [] y < 0 /\ x = 0 -> -90

BIG_COXA_CENTER == 120
HEX_COXA_CENTER == 90

\* targets on the axes of the leg frame, all with a reach inside
\* [min_reach, max_reach] of both robots
AxisInputs ==
    { << 80, 0, -50 >>, << 120, 0, -80 >>, << 0, 80, -50 >>, << 0, -80, -50 >>,
      << -80, 0, -50 >>, << 10, 0, -60 >>, << 0, 0, -60 >> }

\* leg_ik in the horizontal plane: the coxa servo angle it returns and the
\* xy_dist its femur and tibia angles are solved for
LegIkHorizontal(x, y, z, coxa_len, femur_len, tibia_len, center, angle_max) ==
    LET x1 == IF x = 0 /\ y = 0 THEN 1 ELSE x      \* x = 0.1: any x > 0, r < 1
        r == IF x = 0 /\ y = 0 THEN 0 ELSE Isqrt(x * x + y * y)
        coxa_angle == Atan2Degrees(y, x1)
    IN  [coxa_servo |-> clamp(center + coxa_angle, 0, angle_max),
         xy_dist |-> IF r - coxa_len < 0 THEN 1 ELSE r - coxa_len,
         clamped |-> ReachClamped(x, y, z, coxa_len, femur_len, tibia_len)]

LegIkAngles(v, t) ==
    /\ calc' = [op |-> "leg_ik_angles", in |-> << v, t >>,
                out |-> Returned(
                    IF v = "big_hex"
                    THEN LegIkHorizontal(t[1], t[2], t[3], BIG_COXA_LENGTH,
                                         BIG_FEMUR_LENGTH, BIG_TIBIA_LENGTH,
                                         BIG_COXA_CENTER, BIG_ANGLE_MAX)
                    ELSE LegIkHorizontal(t[1], t[2], t[3], HEX_COXA_LENGTH,
                                         HEX_FEMUR_LENGTH, HEX_TIBIA_LENGTH,
                                         HEX_COXA_CENTER, HEX_ANGLE_MAX))]
    /\ UNCHANGED << codecVars, robotVars, calVars, mv, cancel >>

\* big_hex Calibrator.calibrate_centers on one joint: unload, read_position,
\* store center = pos and offset = -(pos - 500) if a position was read, load.
\* An exception of read_position leaves the function before the load.
SERVO_MID == 500

ReadingInputs ==
    { Returned(Some(pos)) : pos \in {-5, 380, 500, 620, 1010} }
    \cup { Returned(None), Raised("IndexError") }

CenterOffset(pos) == -(pos - SERVO_MID)

CalibrateCenterOutcome(reading) ==
    [raised |-> reading.raised,
     value |-> IF reading.raised # "none" \/ reading.value = None
               THEN [stored |-> FALSE, center |-> 0, offset |-> 0,
                     loaded |-> reading.raised = "none"]
               ELSE [stored |-> TRUE, center |-> reading.value[1],
                     offset |-> CenterOffset(reading.value[1]), loaded |-> TRUE]]

CalibrateCenter(reading) ==
    /\ calc' = [op |-> "calibrate_center", in |-> << reading >>,
                out |-> CalibrateCenterOutcome(reading)]
    /\ UNCHANGED << codecVars, robotVars, calVars, mv, cancel >>

\* hex Hexapod.__init__ with the calibration.json that the tool saves from its
\* defaults, or without a file: the entry of servo_map for one joint
BuildServoMapEntry(calibrated, leg, joint) ==
    /\ calc' = [op |-> "build_servo_map", in |-> << calibrated, leg, joint >>,
                out |-> Returned(ServoMapEntry(calibrated, leg, joint))]
    /\ UNCHANGED << codecVars, robotVars, calVars, mv, cancel >>

CalcNext ==
    \/ \E servo_id \in WideIdInputs, cmd \in WideCmdInputs, n \in LongLengthInputs,
          b \in {0, BYTE_MAX} : BuildPacket(servo_id, cmd, Filled(n, b))
    \/ \E angle \in BigAngleInputs, direction \in ServoDirInputs,
          offset \in OffsetInputs : BigAngleToPosition(angle, direction, offset)
    \/ \E sr \in RangeInputs, direction \in ServoDirInputs,
          angle \in HexAngleInputs : HexSetServo(sr, direction, angle)
    \/ \E v \in {"big_hex", "hex"}, t \in IkInputs : LegIk(v, t[1], t[2], t[3])
    \/ \E geometry \in GeometryInputs, t \in SolveInputs : LegIkSolve(geometry, t)
    \/ \E v \in {"big_hex", "hex"}, t \in AxisInputs : LegIkAngles(v, t)
    \/ \E reading \in ReadingInputs : CalibrateCenter(reading)
    \/ \E calibrated \in BOOLEAN, leg \in Legs, i \in 1..3 :
           BuildServoMapEntry(calibrated, leg, Joints[i])

(***************************************************************************)
(* The read commands of the serial driver, scan and read_all_positions     *)
(* (SpecRead).  A read call is _build_packet, _send, _receive on the bytes *)
(* that arrive before the deadline, then the indexing of the response.     *)
(***************************************************************************)
CMD_ID_READ == 14
CMD_TEMP_READ == 26
CMD_VIN_READ == 27

ReadFunctions == {"read_position", "read_voltage", "read_temperature", "read_id"}

ReadCmd(fn) ==
    CASE fn = "read_position" -> CMD_POS_READ [] fn = "read_voltage" -> CMD_VIN_READ
      [] fn = "read_temperature" -> CMD_TEMP_READ [] fn = "read_id" -> CMD_ID_READ

IndexError == Raised("IndexError")

\* response[i] of a bytes object, i >= 0
ByteAt(data, i) == IF i < Len(data) THEN Returned(data[i + 1]) ELSE IndexError

\* the statements after _receive: None is handed on; otherwise response[5],
\* and for position and voltage response[6], are read.  The voltage is kept
\* in millivolts (the code divides by 1000.0).
ReadValue(fn, packet) ==
    IF packet = None THEN Returned(None)
    ELSE LET low == ByteAt(packet, 5)
             high == ByteAt(packet, 6)
         IN  IF low = IndexError THEN IndexError
             ELSE IF fn \in {"read_temperature", "read_id"} THEN Returned(Some(low.value))
             ELSE IF high = IndexError THEN IndexError
             ELSE LET word == low.value + 256 * high.value
                  IN  IF fn = "read_position" /\ word > 32767
                      THEN Returned(Some(word - 65536)) ELSE Returned(Some(word))

\* what a servo answers to a position read, as the protocol frames it
ServoReply(servo_id, low, high) ==
    LX16A_build_packet(servo_id, CMD_POS_READ, << low, high >>)

\* the bytes that arrive after the request: nothing, the reply (a servo at
\* position 252, 500 or -1), the reply followed by one more byte, the reply
\* with its id, length or command byte turned by noise
ReplyInputs == { ServoReply(1, 252, 0), ServoReply(1, 244, 1), ServoReply(1, 255, 255) }

ArrivingInputs ==
    { << >> } \cup ReplyInputs
    \cup UNION { { Append(f, 0), Append(f, Last(f)) } : f \in ReplyInputs }
    \cup { [f EXCEPT ![i] = v] : f \in ReplyInputs, i \in 3..5, v \in NoiseBytes \cup {2} }

\* _receive inside a read call
ReadReceive(arriving) ==
    IF simulation
    THEN [packet |-> None, rest |-> serial_in, status |-> "simulation", asked |-> 0]
    ELSE LX16A_receive(arriving)

\* the effect of one read call on the driver and the line
ReadEffect(fn, servo_id, arriving) ==
    LET r == ReadReceive(arriving)
    IN  /\ serial_out' = LX16A_build_packet(servo_id, ReadCmd(fn), << >>)
        /\ sent' = [servo_id |-> servo_id, cmd |-> ReadCmd(fn), params |-> << >>]
        /\ serial_in' = r.rest
        /\ rx_kind' = IF r.rest = << >> THEN "empty" ELSE "mixed"
        /\ response' = r.packet
        /\ call' = [op |-> "receive", input |-> IF simulation THEN << >> ELSE arriving,
                    kind |-> IF simulation \/ arriving = << >> THEN "empty" ELSE "mixed",
                    status |-> r.status, asked |-> r.asked,
                    header_end |-> IF simulation THEN 0 ELSE ScanHeader(arriving, 1, 0),
                    after_failure |-> (call.after_failure \/ Failed(call))]
        /\ UNCHANGED simulation

ReadIdle == calc.op \notin {"scan", "read_all_positions"} \/ calc.out # Raised("running")

\* read_position / read_voltage / read_temperature / read_id
Read(fn, servo_id, arriving) ==
    /\ ReadIdle
    /\ ReadEffect(fn, servo_id, arriving)
    /\ calc' = [op |-> fn, in |-> << servo_id >>,
                out |-> ReadValue(fn, ReadReceive(arriving).packet)]
    /\ UNCHANGED << robotVars, calVars, mv, cancel >>

\* the servo ids read_all_positions goes through: LEG_ANGLES order, and
\* coxa, femur, tibia of each leg
AllServoIds ==
    Concat([i \in 1..Len(BIG_LEG_ORDER) |->
               [j \in 1..3 |-> DEFAULT_SERVO_IDS[BIG_LEG_ORDER[i]][Joints[j]]]])

Range(a, b) == [i \in 1..(IF b < a THEN 0 ELSE b - a + 1) |-> a + i - 1]

\* scan(start_id, end_id) / read_all_positions() is called: the loop over
\* the ids starts with nothing found; a loop over no id returns at once
LoopStart(op, ids) ==
    /\ ReadIdle
    /\ calc' = [op |-> op, in |-> ids, idx |-> 1, got |-> << >>,
                out |-> IF ids = << >> THEN Returned(<< >>) ELSE Raised("running")]
    /\ UNCHANGED << codecVars, robotVars, calVars, mv, cancel >>

\* one round of the loop: read_position(servo_id); scan appends the id if
\* the position is not None, read_all_positions stores the position; an
\* exception of read_position leaves the loop and the call
LoopRead(arriving) ==
    /\ calc.op \in {"scan", "read_all_positions"}
    /\ calc.out = Raised("running")
    /\ LET servo_id == calc.in[calc.idx]
           pos == ReadValue("read_position", ReadReceive(arriving).packet)
           got == IF calc.op = "read_all_positions" THEN Append(calc.got, pos.value)
                  ELSE IF pos.value # None THEN Append(calc.got, servo_id)
                  ELSE calc.got
       IN  /\ ReadEffect("read_position", servo_id, arriving)
           /\ calc' = IF pos.raised # "none" THEN [calc EXCEPT !.out = pos]
                      ELSE IF calc.idx = Len(calc.in)
                      THEN [calc EXCEPT !.got = got, !.out = Returned(got)]
                      ELSE [calc EXCEPT !.got = got, !.idx = calc.idx + 1]
    /\ UNCHANGED << robotVars, calVars, mv, cancel >>

\* the ranges scanned, and what arrives during read_all_positions: nothing,
\* or the reply of a servo at position 252 whose length byte noise has
\* turned from 5 into 2
ScanIdInputs == {1, 2}
ShortReply == [ServoReply(1, 252, 0) EXCEPT ![4] = 2]
ReadAllInputs == { << >>, ShortReply }

ReadNext ==
    \/ \E fn \in ReadFunctions, servo_id \in {1, BROADCAST_ID}, arriving \in ArrivingInputs :
           Read(fn, servo_id, arriving)
    \/ \E start_id \in ScanIdInputs, end_id \in ScanIdInputs :
           LoopStart("scan", Range(start_id, end_id))
    \/ LoopStart("read_all_positions", AllServoIds)
    \/ \E arriving \in (IF calc.op = "scan" THEN ArrivingInputs ELSE ReadAllInputs) :
           LoopRead(arriving)

(***************************************************************************)
(* The hex calibration tool (SpecCal): calibrate_joint on one joint, its   *)
(* record saved to calibration.json and loaded by the controller.          *)
(***************************************************************************)
\* commands typed in one run of the tool
MaxCommands == 4

\* the pulse limits of calibrate_joint and its steps
PULSE_MIN == 500
PULSE_MAX == 2500
STEP_SMALL == 10
STEP_LARGE == 50

\* pulse widths typed as a number
NumberInputs == {0, 1000, 2000, 3000}

NoFile == [min |-> 0, max |-> 0, center |-> 0, direction |-> 0]

\* nothing written to the channel yet
NoPulse == [value |-> 0, by |-> "none"]

\* set_pulse(channel, pulse_us), called from calibrate_joint or center_all
SetPulse(pulse_us, by) == [value |-> pulse_us, by |-> by]

\* disable_servo(channel) and disable_all: set_pwm(channel, 0, 0)
DisableServo(by) == [value |-> 0, by |-> by]

\* DEFAULT_CALIBRATION of a left joint
DefaultConfig ==
    [min |-> SERVO_MIN, max |-> SERVO_MAX, center |-> SERVO_CENTER, direction |-> 1]

\* _load_calibration without a file, and Hexapod without one
CalInit ==
    /\ config = DefaultConfig
    /\ current = config.center
    /\ tool_pc = "menu"
    /\ commands = 0
    /\ file = NoFile
    /\ servo_range = DefaultRange
    /\ pulse = NoPulse

ToolInit == CalcInit /\ CalInit /\ mv = NoMove /\ cancel = NoCancel

CanType == commands < MaxCommands

\* calibrate_joint starts: current = config['center']
CalibrateJoint ==
    /\ tool_pc = "menu"
    /\ CanType
    /\ tool_pc' = "joint"
    /\ current' = config.center
    /\ pulse' = SetPulse(current', "calibrate_joint")
    /\ commands' = commands + 1
    /\ UNCHANGED << config, file, servo_range >>
    /\ UNCHANGED << codecVars, robotVars, calc, mv, cancel >>

\* '+', '-', '++', '--': current moves by step, kept within 500..2500
Adjust(step) ==
    /\ tool_pc = "joint"
    /\ CanType
    /\ current' = IF step > 0 THEN Min(PULSE_MAX, current + step)
                  ELSE Max(PULSE_MIN, current + step)
    /\ pulse' = SetPulse(current', "calibrate_joint")
    /\ commands' = commands + 1
    /\ UNCHANGED << config, tool_pc, file, servo_range >>
    /\ UNCHANGED << codecVars, robotVars, calc, mv, cancel >>

\* a number: current = max(500, min(2500, int(cmd)))
Number(n) ==
    /\ tool_pc = "joint"
    /\ CanType
    /\ current' = Max(PULSE_MIN, Min(PULSE_MAX, n))
    /\ pulse' = SetPulse(current', "calibrate_joint")
    /\ commands' = commands + 1
    /\ UNCHANGED << config, tool_pc, file, servo_range >>
    /\ UNCHANGED << codecVars, robotVars, calc, mv, cancel >>

\* 'min', 'max', 'center': config[key] = current
Store(key) ==
    /\ tool_pc = "joint"
    /\ CanType
    /\ config' = [config EXCEPT ![key] = current]
    /\ pulse' = SetPulse(current, "calibrate_joint")
    /\ commands' = commands + 1
    /\ UNCHANGED << current, tool_pc, file, servo_range >>
    /\ UNCHANGED << codecVars, robotVars, calc, mv, cancel >>

\* 'flip': config['direction'] *= -1
Flip ==
    /\ tool_pc = "joint"
    /\ CanType
    /\ config' = [config EXCEPT !.direction = -config.direction]
    /\ pulse' = SetPulse(current, "calibrate_joint")
    /\ commands' = commands + 1
    /\ UNCHANGED << current, tool_pc, file, servo_range >>
    /\ UNCHANGED << codecVars, robotVars, calc, mv, cancel >>

\* 'off': disable_servo(channel), and the loop goes on
Off ==
    /\ tool_pc = "joint"
    /\ CanType
    /\ pulse' = DisableServo("off")
    /\ commands' = commands + 1
    /\ UNCHANGED << config, current, tool_pc, file, servo_range >>
    /\ UNCHANGED << codecVars, robotVars, calc, mv, cancel >>

\* a command for which isdigit() holds and int() raises ValueError, such as
\* a superscript two: the exception leaves calibrate_joint and
\* run_interactive, which catch only EOFError and KeyboardInterrupt
NumberRaises ==
    /\ tool_pc = "joint"
    /\ CanType
    /\ tool_pc' = "raised"
    /\ commands' = commands + 1
    /\ UNCHANGED << config, current, file, servo_range, pulse >>
    /\ UNCHANGED << codecVars, robotVars, calc, mv, cancel >>

\* 'done', end of input or Ctrl-C at the prompt: the loop breaks and
\* disable_servo(channel) follows it
Done ==
    /\ tool_pc = "joint"
    /\ tool_pc' = "menu"
    /\ pulse' = DisableServo("calibrate_joint")
    /\ UNCHANGED << config, current, commands, file, servo_range >>
    /\ UNCHANGED << codecVars, robotVars, calc, mv, cancel >>

\* 'save' in the menu: json.dump(self.calibration, f)
SaveCalibration ==
    /\ tool_pc = "menu"
    /\ file' = config
    /\ UNCHANGED << config, current, tool_pc, commands, servo_range, pulse >>
    /\ UNCHANGED << codecVars, robotVars, calc, mv, cancel >>

\* Hexapod.__init__: _load_calibration, then _build_servo_map, which copies
\* min, max and center of the record, or takes the defaults without a file
BuildServoMap ==
    /\ servo_range' = IF file = NoFile THEN DefaultRange
                      ELSE [min |-> file.min, max |-> file.max, center |-> file.center]
    /\ UNCHANGED << config, current, tool_pc, commands, file, pulse >>
    /\ UNCHANGED << codecVars, robotVars, calc, mv, cancel >>

\* 'center' in the menu: center_all sends every center, then sleep(0.5)
CenterAll ==
    /\ tool_pc = "menu"
    /\ CanType
    /\ pulse' = SetPulse(config.center, "center_all")
    /\ tool_pc' = "sleep"
    /\ commands' = commands + 1
    /\ UNCHANGED << config, current, file, servo_range >>
    /\ UNCHANGED << codecVars, robotVars, calc, mv, cancel >>

\* the sleep of center_all ends and the menu prompts again
CenterAllReturns ==
    /\ tool_pc = "sleep"
    /\ tool_pc' = "menu"
    /\ UNCHANGED << config, current, commands, file, servo_range, pulse >>
    /\ UNCHANGED << codecVars, robotVars, calc, mv, cancel >>

\* Ctrl-C during the sleep of center_all: KeyboardInterrupt is caught
\* around input() only, so it leaves run_interactive
InterruptSleep ==
    /\ tool_pc = "sleep"
    /\ tool_pc' = "raised"
    /\ UNCHANGED << config, current, commands, file, servo_range, pulse >>
    /\ UNCHANGED << codecVars, robotVars, calc, mv, cancel >>

\* 'quit', end of input or Ctrl-C at the menu prompt: the loop breaks and
\* disable_all() follows it
Quit ==
    /\ tool_pc = "menu"
    /\ tool_pc' = "exit"
    /\ pulse' = DisableServo("run_interactive")
    /\ UNCHANGED << config, current, commands, file, servo_range >>
    /\ UNCHANGED << codecVars, robotVars, calc, mv, cancel >>

CalNext ==
    \/ CalibrateJoint
    \/ \E step \in {STEP_SMALL, -STEP_SMALL, STEP_LARGE, -STEP_LARGE} : Adjust(step)
    \/ \E n \in NumberInputs : Number(n)
    \/ \E key \in {"min", "max", "center"} : Store(key)
    \/ Flip
    \/ Off
    \/ NumberRaises
    \/ Done
    \/ SaveCalibration
    \/ BuildServoMap
    \/ CenterAll
    \/ CenterAllReturns
    \/ InterruptSleep
    \/ Quit

(***************************************************************************)
(* The specifications.                                                     *)
(***************************************************************************)
\* the robot stands still while the codec is exercised (the LX16A bus
\* belongs to big_hex), and the serial line is quiet while legs and gaits are
InitCodec == CodecInit /\ RobotInit /\ ToolInit /\ variant = "big_hex"

Init == CodecInit /\ RobotInit /\ ToolInit

SpecCodec == InitCodec /\ [][CodecNext]_vars

SpecLeg == Init /\ [][LegNext]_vars

Next == GaitNext

Spec == Init /\ [][Next]_vars

SpecCalc == Init /\ [][CalcNext]_vars

SpecCal == Init /\ [][CalNext]_vars

SpecMove == Init /\ [][MoveNext]_vars

SpecCancel == Init /\ [][CancelNext]_vars

SpecPose == Init /\ [][PoseNext]_vars

SpecRead == InitCodec /\ [][ReadNext]_vars

SpecBody == Init /\ [][BodyNext]_vars

(***************************************************************************)
(* Claims about the leg controller (SpecLeg) and the gaits (Spec).         *)
(***************************************************************************)
ServoIdsOf(legs) == { DEFAULT_SERVO_IDS[leg][Joints[i]] : leg \in legs, i \in 1..3 }

Count(seq, cmd) == Cardinality({ i \in 1..Len(seq) : seq[i].cmd = cmd })

\* C1: big_hex move_all_legs for k legs sends exactly 3k MOVE_TIME_WAIT_WRITE
\* frames, one per joint of each leg, then exactly one MOVE_START frame to
\* the broadcast id 254, and no MOVE_TIME_WRITE frame; every prepare frame
\* precedes the single start frame.
C1_PreparesThenOneStart ==
    phase.name = "move_all_legs" =>
        LET k == Cardinality(phase.legs)
        IN  /\ Len(bus) = 3 * k + 1
            /\ \A i \in 1..(3 * k) : bus[i].cmd = CMD_MOVE_TIME_WAIT_WRITE
            /\ { bus[i].id : i \in 1..(3 * k) } = ServoIdsOf(phase.legs)
            /\ Last(bus) = [cmd |-> CMD_MOVE_START, id |-> BROADCAST_ID]
            /\ Count(bus, CMD_MOVE_START) = 1
            /\ Count(bus, CMD_MOVE_TIME_WRITE) = 0

C1_Witness ==
    /\ phase.name = "move_all_legs"
    /\ Cardinality(phase.legs) = 3
    /\ Len(bus) = 10
    /\ \A leg \in phase.legs : leg_positions[leg] \in TargetInputs

\* C2: inside a gait phase that moves more than one leg (tripod walk,
\* rotate, the push or shift of wave_walk) no per-leg immediate move is
\* issued: every joint command is a prepare frame, released by one
\* broadcast MOVE_START.
C2_MultiLegPhasesBatched ==
    (phase.gait \in {"walk", "rotate", "wave"} /\ Cardinality(phase.legs) > 1) =>
        /\ pwm = << >>
        /\ Len(bus) = 3 * Cardinality(phase.legs) + 1
        /\ Count(bus, CMD_MOVE_TIME_WRITE) = 0
        /\ Count(bus, CMD_MOVE_TIME_WAIT_WRITE) = 3 * Cardinality(phase.legs)
        /\ Last(bus) = [cmd |-> CMD_MOVE_START, id |-> BROADCAST_ID]

\* C3: tripod1 and tripod2 are disjoint and their union is all six legs, so
\* in every full two-phase cycle of walk and rotate each leg is a swing leg
\* in exactly one half-cycle and a stance leg in the other.
C3_TripodsPartitionLegs ==
    /\ SetOf(tripod1) \cap SetOf(tripod2) = {}
    /\ SetOf(tripod1) \cup SetOf(tripod2) = Legs
    /\ \A i \in 1..Len(cycle) :
           /\ cycle[i].swing \cap cycle[i].stance = {}
           /\ cycle[i].swing \cup cycle[i].stance = Legs
    /\ Len(cycle) <= 2
    /\ Len(cycle) = 2 =>
           \A leg \in Legs :
               \/ leg \in cycle[1].swing /\ leg \in cycle[2].stance
                  /\ leg \notin cycle[2].swing /\ leg \notin cycle[1].stance
               \/ leg \in cycle[2].swing /\ leg \in cycle[1].stance
                  /\ leg \notin cycle[1].swing /\ leg \notin cycle[2].stance

C3_Witness ==
    /\ Len(cycle) = 2
    /\ g.gait = "rotate"
    /\ g.step = 2
    /\ phase.name = "turn"

\* the horizontal change of a leg since the half-cycle began
Moved(leg) ==
    << leg_positions[leg][1] - start_pos[leg][1],
       leg_positions[leg][2] - start_pos[leg][2] >>

SquaredLength(v) == v[1] * v[1] + v[2] * v[2]

\* a half-cycle of walk has just ended in the given variant
HalfCycleDone(v) ==
    /\ variant = v
    /\ phase.gait = "walk"
    /\ phase.name = "lower"

\* C4: in one half-cycle of the big_hex tripod gait every swing leg's stored
\* position changes by (dx, dy) and every stance leg's by -(dx/2, dy/2), so a
\* stance leg's displacement is half the swing legs' step length; swing legs
\* end at z = -stand_height and stance legs keep their z.
C4_BigTripodHalfCycle ==
    HalfCycleDone("big_hex") =>
        /\ \A leg \in Last(cycle).swing :
               /\ Moved(leg) = << g.dx, g.dy >>
               /\ leg_positions[leg][3] = -stand_height
        /\ \A leg \in Last(cycle).stance :
               /\ 2 * Moved(leg)[1] = -g.dx
               /\ 2 * Moved(leg)[2] = -g.dy
               /\ leg_positions[leg][3] = start_pos[leg][3]
        /\ \A sw \in Last(cycle).swing, st \in Last(cycle).stance :
               4 * SquaredLength(Moved(st)) = SquaredLength(Moved(sw))

C4_Witness ==
    /\ HalfCycleDone("big_hex")
    /\ Len(cycle) = 2
    /\ g.dy = 30
    /\ \E leg \in Last(cycle).swing : start_pos[leg][3] # -stand_height

\* C5 as stated: in one half-cycle of the hex tripod gait every swing leg
\* swings by the full step vector (dx, dy) while every stance leg moves by
\* -(dx/2, dy/2), so a stance leg's displacement is half the swing legs'.
C5_HexSwingFullStep ==
    HalfCycleDone("hex") =>
        /\ \A leg \in Last(cycle).swing : Moved(leg) = << g.dx, g.dy >>
        /\ \A leg \in Last(cycle).stance :
               /\ 2 * Moved(leg)[1] = -g.dx
               /\ 2 * Moved(leg)[2] = -g.dy
        /\ \A sw \in Last(cycle).swing, st \in Last(cycle).stance :
               4 * SquaredLength(Moved(st)) = SquaredLength(Moved(sw))

\* C5 as the code has it: every swing leg swings by half the step vector,
\* (dx/2, dy/2), and every stance leg moves by -(dx/2, dy/2); swing and
\* stance displacements are equal in length, each half of step_length.
C5_HexSwingHalfStep ==
    HalfCycleDone("hex") =>
        /\ \A leg \in Last(cycle).swing :
               /\ 2 * Moved(leg)[1] = g.dx
               /\ 2 * Moved(leg)[2] = g.dy
        /\ \A leg \in Last(cycle).stance :
               /\ 2 * Moved(leg)[1] = -g.dx
               /\ 2 * Moved(leg)[2] = -g.dy
        /\ \A sw \in Last(cycle).swing, st \in Last(cycle).stance :
               /\ SquaredLength(Moved(st)) = SquaredLength(Moved(sw))
               /\ 4 * SquaredLength(Moved(st)) = SquaredLength(<< g.dx, g.dy >>)

C5_Witness ==
    /\ HalfCycleDone("hex")
    /\ Len(cycle) = 2
    /\ g.dx = -40
    /\ \A leg \in Last(cycle).swing : Moved(leg) = << -20, 0 >>

(***************************************************************************)
(* Claims about the codec, checked under SpecCodec.                        *)
(***************************************************************************)
\* the last _receive call was handed exactly the frame that _send wrote
ReceivedOwnFrame == call.op = "receive" /\ call.kind = "frame"

\* C6: codec round trip - feeding the frame built by _build_packet to
\* _receive returns a packet that carries the same target id, command and
\* parameter bytes.
C6_RoundTrip ==
    ReceivedOwnFrame =>
        /\ response # None
        /\ response[3] = sent.servo_id
        /\ response[5] = sent.cmd
        /\ SubSeq(response, 6, Len(response) - 1) = sent.params

\* C7: a frame with any single byte corrupted is never returned as a packet
\* by _receive.
C7_CorruptionRejected ==
    (call.op = "receive" /\ call.kind = "corrupt") => response = None

\* C8 as stated: the checksum byte is the masked NOT of the sum of the bytes
\* from the length field through the last parameter byte.
C8_ChecksumFromLengthField ==
    serial_out # << >> =>
        Last(serial_out) =
            NotMasked(PacketLength(sent.params) + sent.cmd + Sum(sent.params))

\* C8 amended: the checksum byte that _build_packet appends, and the one
\* _receive recomputes for a packet it accepts, is the masked NOT of the sum
\* of the bytes from the target id through the last parameter byte.
C8_ChecksumFromId ==
    /\ serial_out # << >> =>
           Last(serial_out) =
               NotMasked(sent.servo_id + (Len(sent.params) + 3) + sent.cmd
                         + Sum(sent.params))
    /\ (call.op = "receive" /\ call.status = "ok") =>
           Last(response) = NotMasked(Sum(SubSeq(response, 3, response[4] + 2)))

C8_Witness ==
    /\ serial_out # << >>
    /\ sent.servo_id = BROADCAST_ID
    /\ sent.params # << >>

C10_FrameAfterFailure ==
    (ReceivedOwnFrame /\ call.after_failure) => response = call.input


(***************************************************************************)
(* Claims about the conversion functions, checked under SpecCalc.          *)
(***************************************************************************)
BuiltPacket == calc.op = "build_packet"

\* C11 as stated: _build_packet fails only when the parameter bytes exceed
\* the maximum per-frame length; within that length it returns a frame, and
\* no target id or command code makes it fail.
C11_FailsOnlyOnLongParams ==
    BuiltPacket => (calc.out = ValueError <=> Len(calc.in[3]) + 3 > BYTE_MAX)

\* C11 as the code has it: _build_packet has no check of its own; it raises
\* ValueError exactly when the target id, the command code or the length
\* byte len(params) + 3 is outside 0..255, and returns a frame of
\* len(params) + 6 bytes otherwise.
C11_FailsOnAnyNonByte ==
    BuiltPacket =>
        /\ calc.out = ValueError <=>
               \/ calc.in[1] \notin 0..255
               \/ calc.in[2] \notin 0..255
               \/ Len(calc.in[3]) > 252
        /\ calc.out # ValueError =>
               /\ calc.out.raised = "none"
               /\ Len(calc.out.value) = Len(calc.in[3]) + 6
               /\ calc.out.value[3] = calc.in[1]
               /\ calc.out.value[5] = calc.in[2]

C11_Witness ==
    /\ BuiltPacket
    /\ calc.in[1] = 256
    /\ Len(calc.in[3]) = 0
    /\ calc.out = ValueError

ConvertedBig == calc.op = "angle_to_position"
ConvertedHex == calc.op = "set_servo"

\* C12: the angle-to-signal conversion always yields an in-range signal:
\* _angle_to_position a position in [0, 1000], and hex set_servo a pulse in
\* [min, max] of the joint's calibrated range, for every angle, direction,
\* offset and range.
C12_SignalInRange ==
    /\ ConvertedBig => calc.out.value \in 0..1000
    /\ ConvertedHex => calc.out.value \in (calc.in[3].min)..(calc.in[3].max)

\* C13: the conversion is monotonic in the angle over the servo domain:
\* non-decreasing for direction = +1 and non-increasing for direction = -1,
\* for every offset (big_hex) and every calibrated range (hex).
C13_MonotonicInAngle ==
    /\ (ConvertedBig /\ calc.in[1] \in 0..240) =>
           \A a \in BigAngleInputs \cap 0..(calc.in[1]) :
               IF calc.in[2] > 0
               THEN AngleToPosition(a, calc.in[2], calc.in[3]) <= calc.out.value
               ELSE AngleToPosition(a, calc.in[2], calc.in[3]) >= calc.out.value
    /\ (ConvertedHex /\ calc.in[1] \in 0..180) =>
           \A a \in HexAngleInputs \cap 0..(calc.in[1]) :
               IF calc.in[2] > 0
               THEN SetServoPulse(calc.in[3], calc.in[2], a) <= calc.out.value
               ELSE SetServoPulse(calc.in[3], calc.in[2], a) >= calc.out.value

\* C14: direction mirroring - for every angle a of the servo domain the
\* signal for direction = -1 equals the signal for the angle domain_max - a
\* with direction = +1 on the same joint (domain_max 240 in big_hex, 180 in
\* hex).
C14_DirectionMirrors ==
    /\ (ConvertedBig /\ calc.in[2] = -1 /\ calc.in[1] \in 0..240) =>
           calc.out.value = AngleToPosition(240 - calc.in[1], 1, calc.in[3])
    /\ (ConvertedHex /\ calc.in[2] = -1 /\ calc.in[1] \in 0..180) =>
           calc.out.value = SetServoPulse(calc.in[3], 1, 180 - calc.in[1])

C14_Witness ==
    /\ ConvertedBig
    /\ calc.in = << 100, -1, 30 >>
    /\ calc.out.value = 613
    /\ AngleToPosition(100, 1, 30) = 446

\* linear interpolation of the angle domain 0..domain_max onto lo..hi, cut to
\* an integer, and the clamp into the range that lo and hi span
Interpolate(angle, domain_max, lo, hi) ==
    IntTrunc(lo * domain_max + angle * (hi - lo), domain_max)

ClampInto(v, lo, hi) ==
    IF v < Min(lo, hi) THEN Min(lo, hi) ELSE IF v > Max(lo, hi) THEN Max(lo, hi) ELSE v

Mirrored(angle, direction, domain_max) ==
    IF direction < 0 THEN domain_max - angle ELSE angle

\* C15: the calibration offset is a trim added after interpolation: the
\* signal is clamp(interpolate(angle) + offset), offset being the stored
\* value (0 when none is stored, as for every hex record) and interpolate
\* the linear map of the angle domain onto the joint's signal range.
C15_OffsetAfterInterpolation ==
    /\ ConvertedBig =>
           calc.out.value =
               ClampInto(Interpolate(Mirrored(calc.in[1], calc.in[2], 240), 240, 0, 1000)
                             + calc.in[3],
                         0, 1000)
    /\ ConvertedHex =>
           calc.out.value =
               ClampInto(Interpolate(Mirrored(calc.in[1], calc.in[2], 180), 180,
                                     calc.in[3].min, calc.in[3].max) + 0,
                         calc.in[3].min, calc.in[3].max)

C15_Witness ==
    /\ ConvertedBig
    /\ calc.in = << 1, 1, 30 >>
    /\ calc.out.value = 34

(***************************************************************************)
(* Claims about the hex calibration tool, checked under SpecCal.           *)
(***************************************************************************)
Ordered(r) == r.min < r.center /\ r.center < r.max

\* C16: every calibration record satisfies min < center < max in every
\* reachable state: after any sequence of calibrate_joint commands, and in
\* the range that _build_servo_map loads from a record.
C16_RecordsOrdered ==
    /\ Ordered(config)
    /\ file # NoFile => Ordered(file)
    /\ Ordered(servo_range)

(***************************************************************************)
(* Claims about leg_ik and the leg moves.                                  *)
(***************************************************************************)
SolvedIk == calc.op = "leg_ik"

\* C20: leg_ik signals a reachability warning to its caller exactly when it
\* clamped the target: a warning whenever the raw reach is outside
\* [min_reach, max_reach], in the big_hex and in the hex solver, and none
\* when the reach was inside.
C20_WarnsExactlyWhenClamped ==
    SolvedIk => (calc.out.value.warned <=> calc.out.value.clamped)

MoveLegDone == mv.op = "move_leg" /\ mv.at = "done"

TargetClamped ==
    IF variant = "big_hex" THEN big_leg_ik(mv.target[1], mv.target[2], mv.target[3]).clamped
    ELSE hex_leg_ik(mv.target[1], mv.target[2], mv.target[3]).clamped

StoredAfterJointWrites ==
    (mv.op = "move_leg" /\ leg_positions # start_pos) =>
        /\ mv.at = "done"
        /\ variant = "big_hex" => Len(bus) = Len(Joints)
        /\ (variant = "hex" /\ ~simulation) => Len(pwm) = Len(Joints)

\* in move_all_legs no position is stored before the broadcast move_start
StoredAfterMoveStart ==
    (mv.op = "move_all_legs" /\ leg_positions # start_pos) =>
        (bus # << >> /\ Last(bus) = BusMoveStart)

\* a call that raised has stored nothing
NoStoreOnFailure == mv.at = "raised" => leg_positions = start_pos

\* C18: a stored foot position changes only after its command has been
\* dispatched: in move_leg after the three joint writes, in move_all_legs
\* not before the broadcast move_start, and a call whose dispatch failed
\* part-way has changed no stored position.
C18_StoredOnlyAfterDispatch ==
    StoredAfterJointWrites /\ StoredAfterMoveStart /\ NoStoreOnFailure

ChannelsOf(legs) == { DEFAULT_SERVO_MAP[leg][Joints[i]] : leg \in legs, i \in 1..3 }

\* the legs a sub-phase of _tripod_step moves
TripodPhaseLegs == IF phase.name = "swing" THEN Legs ELSE Last(cycle).swing

\* every leg of the phase got its three joint commands
PhaseFullyDispatched ==
    /\ phase.legs = TripodPhaseLegs
    /\ variant = "big_hex" =>
           /\ Len(bus) = 3 * Cardinality(phase.legs) + 1
           /\ { bus[i].id : i \in 1..(Len(bus) - 1) } = ServoIdsOf(phase.legs)
           /\ Last(bus) = BusMoveStart
    /\ (variant = "hex" /\ ~simulation) =>
           /\ Len(pwm) = 3 * Cardinality(phase.legs)
           /\ SetOf(pwm) = ChannelsOf(phase.legs)

FootClamped(pos) ==
    IF variant = "big_hex" THEN big_leg_ik(pos[1], pos[2], pos[3]).clamped
    ELSE hex_leg_ik(pos[1], pos[2], pos[3]).clamped

LastSwingTarget(leg) ==
    << start_pos[leg][1] + SwingAdvance(g.dx), start_pos[leg][2] + SwingAdvance(g.dy),
       start_pos[leg][3] + g.lift >>

SolvedReach == calc.op = "leg_ik_solve"

DefaultGeometry == calc.in[1] \in { << 50, 80, 120 >>, << 25, 55, 75 >> }

\* the reach of a solve that returned is in [min_reach, max_reach], strictly
\* inside when it was clamped, and not zero
ReachInside ==
    LET v == calc.out.value
    IN  /\ v.min_reach * v.min_reach <= v.reach2
        /\ v.reach2 <= v.max_reach * v.max_reach
        /\ v.clamped => /\ v.min_reach * v.min_reach < v.reach2
                        /\ v.reach2 < v.max_reach * v.max_reach
        /\ v.reach2 # 0

\* C21: for every link geometry and every foot position, the origin and
\* targets inside the coxa radius included, the reach leg_ik uses in the law
\* of cosines lies in [|femur_len - tibia_len|, femur_len + tibia_len], is
\* strictly inside when the raw reach was outside, and is never zero, so
\* neither division fails and leg_ik returns its three clamped angles.
C21_ReachValidNoError ==
    SolvedReach => (calc.out.raised = "none" /\ ReachInside)

\* the same on the link lengths of the two robots
ReachValidOnDefaults ==
    (SolvedReach /\ DefaultGeometry) => (calc.out.raised = "none" /\ ReachInside)

SolvedAngles == calc.op = "leg_ik_angles"

\* forward kinematics in the horizontal plane: the coxa servo angle gives
\* the heading of the leg, and femur and tibia reach coxa_len + xy_dist along
\* it (the law of cosines is solved exactly for xy_dist and z)
ReprojectedHeading ==
    calc.out.value.coxa_servo
        - (IF calc.in[1] = "big_hex" THEN BIG_COXA_CENTER ELSE HEX_COXA_CENTER)

ReprojectedRadius ==
    calc.out.value.xy_dist
        + (IF calc.in[1] = "big_hex" THEN BIG_COXA_LENGTH ELSE HEX_COXA_LENGTH)

\* the target in the same polar form; the origin has radius 0 and no heading
TargetRadius == Isqrt(calc.in[2][1] * calc.in[2][1] + calc.in[2][2] * calc.in[2][2])

TargetHeading ==
    IF TargetRadius = 0 THEN ReprojectedHeading
    ELSE Atan2Degrees(calc.in[2][2], calc.in[2][1])

\* C22: for a foot position whose reach is within [min_reach, max_reach],
\* the angles leg_ik returns re-project through forward kinematics to the
\* original position: the re-projected foot has the heading and the
\* horizontal distance of the target.
C22_IkRoundTrip ==
    (SolvedAngles /\ ~calc.out.value.clamped) =>
        /\ ReprojectedHeading = TargetHeading
        /\ ReprojectedRadius = TargetRadius

\* the same for targets in front of the coxa axis and outside the coxa radius
RoundTripInFront ==
    (SolvedAngles /\ ~calc.out.value.clamped /\ calc.in[2][1] >= 0
        /\ ReprojectedRadius - calc.out.value.xy_dist <= TargetRadius) =>
        /\ ReprojectedHeading = TargetHeading
        /\ ReprojectedRadius = TargetRadius

(***************************************************************************)
(* Claims about the poses and the one-leg gaits (Spec).                    *)
(***************************************************************************)
Stood == phase.name = "stand"

\* the stored positions a list of moves leaves
PositionsAfter(moves) ==
    IF variant = "big_hex"
    THEN MoveAllLegsPositions(BuildPositions(moves, leg_positions, << >>), leg_positions)
    ELSE MoveEach(moves, leg_positions)

\* the same stand call, with the same argument, run in this state
StandAgain ==
    PositionsAfter(IF phase.gait = "stand" THEN GaitStandMoves(g.z)
                   ELSE HexapodStandMoves(g.z))

AllAtHeight(h) == \A leg \in Legs : leg_positions[leg][3] = -h

\* C23 as stated: after stand(height=h) every stored z is -h, and the same
\* call run again leaves every stored position as it is, for
\* GaitController.stand and Hexapod.stand of both robots.
C23_StandReachesHeight ==
    Stood => (AllAtHeight(g.z) /\ StandAgain = leg_positions)

\* the height a stand call with a falsy height argument uses
DefaultHeight ==
    IF variant = "hex" THEN (IF phase.gait = "stand" THEN stand_height ELSE 0)
    ELSE body_height

\* C23 amended: after stand(height=h) with h other than 0 every stored z is
\* -h; stand(height=0) is taken as stand() and stores the default height
\* (hex Hexapod.stand alone stores z = 0); in both cases the same call run
\* again leaves every stored position as it is.
C23_StandNonZeroHeight ==
    Stood => /\ g.z # 0 => AllAtHeight(g.z)
             /\ g.z = 0 => AllAtHeight(DefaultHeight)
             /\ StandAgain = leg_positions

C23_Witness ==
    /\ Stood
    /\ g.z = 60
    /\ calls = MaxCalls
    /\ variant = "hex"
    /\ phase.gait = "stand"
    /\ \E leg \in Legs : leg_positions[leg][1] # HEX_STANCE_X

OneLegGait == g.gait \in {"wave", "ripple"}

\* the fixed sequence of the running one-leg gait
StepSequence == IF g.gait = "ripple" THEN ripple_sequence ELSE WaveSequence

\* C24: in every cycle of wave_walk (both robots) and of RippleGait.walk the
\* legs that have made their lift-swing-plant step are the first legs of the
\* fixed sequence, in its order and none twice, and when the gait returns
\* each of the six legs has stepped exactly once in the last cycle.
C24_EachLegOncePerCycle ==
    OneLegGait =>
        /\ Len(g.stepped) <= Len(StepSequence)
        /\ g.stepped = SubSeq(StepSequence, 1, Len(g.stepped))
        /\ Cardinality(SetOf(g.stepped)) = Len(g.stepped)
        /\ pc = "return" => SetOf(g.stepped) = Legs
        /\ (phase.gait = g.gait /\ phase.name = "lower") =>
               phase.legs = {g.stepped[Len(g.stepped)]}

C24_Witness ==
    /\ g.gait = "ripple"
    /\ pc = "return"
    /\ g.step = MaxSteps
    /\ g.stepped = ripple_sequence

\* the z a leg rests at: -stand_height once it has made its step in this
\* cycle, the z it had when the cycle began before that
RestZ(leg) ==
    IF leg \in SetOf(g.stepped) THEN -stand_height ELSE start_pos[leg][3]

OffGround == { leg \in Legs : leg_positions[leg][3] # RestZ(leg) }

\* C25: during wave_walk (both robots) and RippleGait.walk at most one leg
\* is off the ground at any time, the leg between its lift and its plant, so
\* at least five legs are planted in every state of the gait.
C25_AtMostOneLegLifted ==
    OneLegGait =>
        /\ Cardinality(OffGround) <= 1
        /\ Cardinality(Legs \ OffGround) >= 5
        /\ (phase.gait = g.gait /\ phase.name \in {"lift", "swing"}) =>
               OffGround = phase.legs

C25_Witness ==
    /\ g.gait = "wave"
    /\ variant = "big_hex"
    /\ phase.name = "swing"
    /\ Len(g.stepped) = 3
    /\ Cardinality(OffGround) = 1
    /\ g.step = MaxSteps

GaitRuns == g.gait \in {"walk", "rotate", "wave", "ripple"} /\ phase.gait = g.gait

\* C26: gait phases never overlap: after the commands of a phase of walk,
\* rotate, wave_walk or ripple walk are dispatched the engine sleeps before
\* it dispatches any command of the next phase, the stance push of
\* wave_walk and the backward shift of ripple included.
C26_SleepBetweenPhases ==
    (GaitRuns /\ pc # "return") => phase.slept

\* the same without the push of big_hex wave_walk and the shift of ripple
SleepAfterOtherPhases ==
    (GaitRuns /\ pc # "return" /\ ~(phase.gait = "wave" /\ phase.name = "push")
        /\ ~(phase.gait = "ripple" /\ phase.name = "shift")) => phase.slept

\* C27: a gait checks a cancellation flag before each phase: once a stop is
\* requested no further phase is dispatched, so the stored positions and the
\* last dispatched phase stay those of the moment of the request.
C27_StopsAtPhaseBoundary ==
    cancel.requested => (leg_positions = cancel.positions /\ phase = cancel.phase)

(***************************************************************************)
(* Claims about the startup and shutdown sequences of hex (SpecPose).      *)
(***************************************************************************)
PoseRank(name) ==
    CASE name = "lie_down" -> 1 [] name = "curl" -> 2 [] name = "disable" -> 3
      [] name = "flat" -> 3 [] name = "get_up" -> 4

\* the phases in g.stepped come in the order of the pose ranks
PosesInOrder ==
    \A i \in 1..(Len(g.stepped) - 1) : PoseRank(g.stepped[i]) <= PoseRank(g.stepped[i + 1])

Times(name) == Cardinality({ i \in 1..Len(g.stepped) : g.stepped[i] = name })

AllLegsAt(pos) == \A leg \in Legs : leg_positions[leg] = pos

ShutDownReturns == g.gait = "shut_down" /\ pc = "return"

\* C28: shut_down lowers the body (from -stand_height in steps of 10), then
\* curls the legs, and only then disables the servos: when it returns the
\* last thing done is the disable, which wrote PWM 0 to each of the 18 joint
\* channels (nothing at all is written when the controller simulates), and
\* no leg was moved after it.
C28_ShutDownDisablesLast ==
    g.gait = "shut_down" =>
        /\ SetOf(g.stepped) \subseteq {"lie_down", "curl", "disable"}
        /\ PosesInOrder
        /\ Times("curl") <= 1 /\ Times("disable") <= 1
        /\ (stand_height >= HEX_POSE_STEP /\ g.stepped # << >>) => g.stepped[1] = "lie_down"
        /\ phase.name = "disable" => pc = "return"
        /\ pc = "return" =>
               /\ Len(g.stepped) >= 2
               /\ Last(g.stepped) = "disable"
               /\ g.stepped[Len(g.stepped) - 1] = "curl"
               /\ AllLegsAt(<< HEX_CURL_X, 0, -HEX_CURL_Z >>)
               /\ bus = << >>
               /\ ~simulation =>
                      /\ Len(pwm) = 3 * Cardinality(Legs)
                      /\ \A i \in 1..Len(pwm) : Len(pwm[i]) = 3 /\ pwm[i][3] = 0
                      /\ { << pwm[i][1], pwm[i][2] >> : i \in 1..Len(pwm) } = ChannelsOf(Legs)
               /\ simulation => pwm = << >>

C28_Witness ==
    /\ ShutDownReturns
    /\ ~simulation
    /\ stand_height = HEX_STAND_HEIGHT
    /\ Times("lie_down") = 5
    /\ calls = MaxCalls
    /\ Len(pwm) = 18

BootUpReturns == g.gait = "boot_up" /\ pc = "return"

\* C29: boot_up goes curled -> flat -> standing, and when it returns every
\* leg's stored z is -stand_height, whatever stand_height is.
C29_BootUpReachesStandHeight ==
    /\ g.gait = "boot_up" =>
           /\ PosesInOrder
           /\ g.stepped # << >> => g.stepped[1] = "curl"
    /\ BootUpReturns => \A leg \in Legs : leg_positions[leg][3] = -stand_height

\* what boot_up does reach: the last height of range(10, stand_height + 1, 10),
\* and the -10 of _lie_flat when that range is empty
BootUpReachesLastStep ==
    BootUpReturns =>
        \A leg \in Legs :
            leg_positions[leg] =
                << HEX_STANCE_WIDTH, 0,
                   -(IF stand_height < HEX_POSE_STEP THEN HEX_FLAT_Z
                     ELSE HEX_POSE_STEP * (stand_height \div HEX_POSE_STEP)) >>

(***************************************************************************)
(* Claims about the read commands (SpecRead).                              *)
(***************************************************************************)
ReadReturned == calc.op \in ReadFunctions

LoopCalled == calc.op \in {"scan", "read_all_positions"}

\* a read call hands on the None of _receive
NoneWhenReceiveFails ==
    (ReadReturned /\ (Failed(call) \/ call.status = "simulation")) =>
        calc.out = Returned(None)

\* C30: a missing or invalid response is reported as None and never as an
\* exception: the four read functions return None when _receive found no
\* header, a short frame or a checksum mismatch, and always in simulation,
\* and no read, scan or read_all_positions call ends in an exception,
\* whatever bytes arrive.
C30_AbsenceNotException ==
    /\ NoneWhenReceiveFails
    /\ ReadReturned => calc.out.raised = "none"
    /\ LoopCalled => calc.out.raised \in {"none", "running"}

\* in simulation every read returns None, and scan and read_all_positions
\* return an empty list and eighteen None entries
SimulationReadsNone ==
    simulation =>
        /\ ReadReturned => calc.out = Returned(None)
        /\ (LoopCalled /\ calc.out.raised = "none") =>
               calc.out.value = (IF calc.op = "scan" THEN << >>
                                 ELSE [i \in 1..Len(AllServoIds) |-> None])
        /\ LoopCalled => calc.out.raised # "IndexError"

(***************************************************************************)
(* Claims about the body movements of big_hex (SpecBody).                  *)
(***************************************************************************)
BodyShifted == phase.gait = "body_shift"

\* C31: body_shift(dx, dy, dz) translates the stored position of each of the
\* six legs by (-dx, -dy, -dz) in one move_all_legs call (eighteen prepare
\* frames, then one broadcast start), and body_shift(-dx, -dy, -dz) run next
\* puts every stored position back.
C31_BodyShiftTranslatesAll ==
    BodyShifted =>
        /\ \A leg \in Legs :
               leg_positions[leg] = << start_pos[leg][1] - g.x, start_pos[leg][2] - g.y,
                                       start_pos[leg][3] - g.z >>
        /\ Len(bus) = 3 * Cardinality(Legs) + 1
        /\ \A i \in 1..(Len(bus) - 1) : bus[i].cmd = CMD_MOVE_TIME_WAIT_WRITE
        /\ { bus[i].id : i \in 1..(Len(bus) - 1) } = ServoIdsOf(Legs)
        /\ Last(bus) = BusMoveStart
        /\ Count(bus, CMD_MOVE_START) = 1
        /\ PositionsAfter(BodyShiftMoves(-g.x, -g.y, -g.z)) = start_pos

C31_Witness ==
    /\ BodyShifted
    /\ calls = MaxCalls
    /\ g.x = 20 /\ g.y = -20 /\ g.z = 20
    /\ start_pos["L1"] # << BIG_STANCE_X, 0, -BIG_BODY_HEIGHT >>
    /\ leg_positions # start_pos

(***************************************************************************)
(* Claims about frames behind garbage (SpecCodec).                         *)
(***************************************************************************)
\* the last _receive ran on stray bytes followed by the whole frame sent
GarbageThenFrame ==
    /\ call.op = "receive"
    /\ call.status # "simulation"
    /\ serial_out # << >>
    /\ Len(call.input) > Len(serial_out)
    /\ SubSeq(call.input, Len(call.input) - Len(serial_out) + 1, Len(call.input)) = serial_out

GarbageLen == Len(call.input) - Len(serial_out)

\* the header loop stops on the second header byte of the frame
LocksOntoFrameHeader == GarbageThenFrame => call.header_end = GarbageLen + 2

\* C32: when a valid frame is preceded by garbage, stray 0x55 bytes
\* included, the header scanner of _receive locks onto the two header bytes
\* of the frame and _receive returns the frame.
C32_FrameFoundBehindGarbage ==
    GarbageThenFrame => (call.header_end = GarbageLen + 2 /\ response = serial_out)

\* garbage without 0x55 is skipped
LocksBehindPlainGarbage ==
    (GarbageThenFrame /\ \A i \in 1..GarbageLen : call.input[i] # FRAME_HEADER) =>
        call.header_end = GarbageLen + 2

(***************************************************************************)
(* Claims about drift and body height in the gaits (Spec).                 *)
(***************************************************************************)
Horizontal(lp) == [leg \in Legs |-> << lp[leg][1], lp[leg][2] >>]

\* both _tripod_step calls of a cycle of walk have returned
WalkCycleDone ==
    g.gait = "walk" /\ phase.gait = "walk" /\ phase.name = "lower" /\ Len(cycle) = 2

\* a cycle of wave_walk is over: after _shift_all_legs on hex, after the push
\* that follows the sixth leg on big_hex
WaveCycleDone ==
    /\ g.gait = "wave" /\ phase.gait = "wave"
    /\ Len(g.stepped) = Len(WaveSequence)
    /\ phase.name = (IF variant = "hex" THEN "shift" ELSE "push")

\* C33: after each complete cycle of hex walk, hex wave_walk and big_hex
\* wave_walk every leg's stored (x, y) is what it was when the cycle began.
C33_NoDriftWaveAndHexTripod ==
    /\ (variant = "hex" /\ WalkCycleDone) =>
           Horizontal(leg_positions) = Horizontal(cycle[1].from)
    /\ WaveCycleDone => Horizontal(leg_positions) = Horizontal(start_pos)

C33_Witness ==
    /\ variant = "hex" /\ WalkCycleDone
    /\ g.step = MaxSteps /\ pc = "return"
    /\ g.dx # 0
    /\ calls = MaxCalls
    /\ cycle[2].from # cycle[1].from

C33_WaveWitness ==
    /\ variant = "big_hex" /\ WaveCycleDone
    /\ g.step = MaxSteps /\ pc = "return"
    /\ g.dy # 0

\* C34: after each complete two-phase cycle of big_hex walk every leg's
\* stored (x, y) is what it was when the cycle began.
C34_NoDriftBigTripod ==
    (variant = "big_hex" /\ WalkCycleDone) =>
        Horizontal(leg_positions) = Horizontal(cycle[1].from)

\* what a cycle of big_hex walk does leave: every leg half a step further
BigTripodDriftsHalfStep ==
    (variant = "big_hex" /\ WalkCycleDone) =>
        \A leg \in Legs :
            /\ leg_positions[leg][1] = cycle[1].from[leg][1] + g.dx - g.dx \div 2
            /\ leg_positions[leg][2] = cycle[1].from[leg][2] + g.dy - g.dy \div 2

\* the shift after the sixth leg of a ripple cycle is done
RippleCycleDone ==
    /\ g.gait = "ripple" /\ phase.gait = "ripple" /\ phase.name = "shift"
    /\ Len(g.stepped) = Len(ripple_sequence)

\* C35: after each complete six-leg cycle of RippleGait.walk every leg's
\* stored (x, y) is what it was when the cycle began: the step of a leg is
\* cancelled by the backward shifts it gets while the other five legs step.
C35_NoDriftRipple ==
    RippleCycleDone => Horizontal(leg_positions) = Horizontal(start_pos)

\* what a ripple cycle does leave: a step less five shifts of a sixth
RippleDriftsSixth ==
    RippleCycleDone =>
        \A leg \in Legs :
            /\ leg_positions[leg][1] = start_pos[leg][1] + g.dx - 5 * IntTrunc(g.dx, 6)
            /\ leg_positions[leg][2] = start_pos[leg][2] + g.dy - 5 * IntTrunc(g.dy, 6)

RotateCycleDone ==
    g.gait = "rotate" /\ phase.gait = "rotate" /\ phase.name = "turn" /\ Len(cycle) = 2

CycleDone == WalkCycleDone \/ RotateCycleDone \/ WaveCycleDone

\* the stored positions when the cycle that is done began
CycleStart == IF g.gait = "wave" THEN start_pos ELSE cycle[1].from

\* C36: a gait keeps the body height the last stand / sit call left: when
\* all six legs were at one height z = -h as a cycle of walk, rotate or
\* wave_walk began, they are all at z = -h when the cycle is complete.
C36_GaitKeepsPoseHeight ==
    CycleDone =>
        \A h \in { -CycleStart[leg][3] : leg \in Legs } :
            (\A leg \in Legs : CycleStart[leg][3] = -h) => AllAtHeight(h)

\* what a cycle does leave: every leg planted at -stand_height of the gait
\* controller, whatever height the pose call left
CyclePlantsAtStandHeight == CycleDone => AllAtHeight(stand_height)

(***************************************************************************)
(* Claims about the calibration tools (SpecCalc, SpecCal).                 *)
(***************************************************************************)
CenterCalibrated == calc.op = "calibrate_center"

\* the native position _angle_to_position gives for the center angle of a
\* joint of direction +1 with the stored offset
CenterCommand == AngleToPosition(BIG_ANGLE_MAX \div 2, 1, calc.out.value.offset)

\* C37: after calibrate_centers has recorded position p as the center of a
\* servo, the center angle 120 of that joint (direction +1) is converted by
\* _angle_to_position to p, clamped to [0, 1000]; and the servo that was
\* unloaded is loaded again, whether or not its position could be read.
C37_CenterCommandsRecorded ==
    CenterCalibrated =>
        /\ calc.out.value.stored =>
               CenterCommand = clamp(calc.out.value.center, 0, BIG_POSITION_MAX)
        /\ calc.out.value.loaded

\* what the stored offset does give: the center mirrored about 500
CenterCommandsMirrored ==
    (CenterCalibrated /\ calc.out.value.stored) =>
        CenterCommand = clamp(BIG_POSITION_MAX - calc.out.value.center, 0, BIG_POSITION_MAX)

\* the servo is loaded again whenever read_position returns
LoadedWhenReadReturns ==
    (CenterCalibrated /\ calc.out.raised = "none") => calc.out.value.loaded

\* the 18 (leg, joint) pairs
LegJoints == Legs \X {"coxa", "femur", "tibia"}

\* a table over the (leg, joint) pairs gives distinct values to distinct pairs
InjectiveTable(table) ==
    \A a \in LegJoints, b \in LegJoints :
        table[a[1]][a[2]] = table[b[1]][b[2]] => a = b

\* servo_map as _build_servo_map fills it from the default calibration
CalibratedServoMap ==
    [leg \in Legs |-> [joint \in {"coxa", "femur", "tibia"} |->
        ServoMapEntry(TRUE, leg, joint)]]

ServoMapBuilt == calc.op = "build_servo_map"

\* C39: the default tables give the 18 (leg, joint) pairs 18 distinct servo
\* ids, none of them the broadcast id (big_hex), and 18 distinct
\* (driver, channel) pairs with driver 0 or 1 and channel 0..15 (hex); and
\* the entry _build_servo_map computes from the channel number of
\* DEFAULT_CALIBRATION is the entry of DEFAULT_SERVO_MAP for the same joint.
C39_AddressingInjective ==
    /\ InjectiveTable(DEFAULT_SERVO_IDS)
    /\ \A a \in LegJoints : DEFAULT_SERVO_IDS[a[1]][a[2]] # BROADCAST_ID
    /\ InjectiveTable(DEFAULT_SERVO_MAP)
    /\ InjectiveTable(CalibratedServoMap)
    /\ ServoMapBuilt =>
           /\ calc.out.value = DEFAULT_SERVO_MAP[calc.in[2]][calc.in[3]]
           /\ calc.out.value[1] \in {0, 1}
           /\ calc.out.value[2] \in 0..(PCA_CHANNELS - 1)

\* a joint of the second board resolved from its calibration channel
C39_Witness ==
    /\ ServoMapBuilt
    /\ calc.in = << TRUE, "R3", "tibia" >>
    /\ calc.out.value = << 1, 5 >>

\* the tool has left run_interactive, by return or by an exception
ToolEnded == tool_pc \in {"exit", "raised"}

\* the channel carries no signal
Disabled == pulse.value = 0

\* C38: every pulse calibrate_joint sends lies within [500, 2500]; when
\* calibrate_joint has been left the last write to its channel is the
\* disable, unless center_all wrote after it; and when run_interactive has
\* ended, the last write is the disable of disable_all.
C38_PulseInRangeDisabledLast ==
    /\ pulse.by = "calibrate_joint" => (Disabled \/ pulse.value \in PULSE_MIN..PULSE_MAX)
    /\ (tool_pc = "menu" /\ pulse.by \notin {"none", "center_all"}) => Disabled
    /\ ToolEnded => (Disabled /\ pulse.by = "run_interactive")

\* the two parts of it that hold: the range of the pulses, and the disable
\* on the exits by 'done', 'quit', end of input and Ctrl-C at a prompt
PulseInRange ==
    pulse.by = "calibrate_joint" => (Disabled \/ pulse.value \in PULSE_MIN..PULSE_MAX)

DisabledWhenLoopBreaks ==
    /\ (tool_pc = "menu" /\ pulse.by \notin {"none", "center_all"}) => Disabled
    /\ tool_pc = "exit" => (Disabled /\ pulse.by = "run_interactive")

\* the exits by an exception leave the servo driven
DrivenAfterException == tool_pc = "raised" /\ ~Disabled

=============================================================================
